---------------------------- MODULE Spec2Model ----------------------------
(***************************************************************************)
(* A model of the HackTricks MCP server (src/src/index.ts).                *)
(*                                                                         *)
(* The server answers one tool request at a time over a read-only corpus   *)
(* of markdown files.  A request is handled by one handler of the          *)
(* CallToolRequestSchema dispatcher; a handler calls the external search   *)
(* engine (rg, through execFile) and the filesystem (readFile).            *)
(*                                                                         *)
(* Strings are sequences of one-character strings, so that trim, split,    *)
(* includes, startsWith, replace and the regular expressions of the code   *)
(* are computed character by character.  An error message is a sequence of *)
(* string pieces whose concatenation is the message.                       *)
(*                                                                         *)
(* A number n of the request (the limit argument is a JSON number, which   *)
(* may be fractional) is represented by the integer 2n, its count of       *)
(* halves.                                                                 *)
(***************************************************************************)
EXTENDS Integers, Sequences, FiniteSets, TLC

VARIABLES
    fs,        \* the corpus on disk: absolute location -> entry (read-only)
    pc,        \* "idle": waiting for a request; "replied": a handler has returned
    request,   \* the request being answered: [name, query, category, limit, path,
               \* section, topic]
    engine,    \* what the search engine answered to this request's invocation
    execLog,   \* the argument vectors handed to execFile("rg", ...) for this request
    fsLog,     \* the locations handed to readFile for this request, in order
    raw,       \* what searchHackTricks returned to searchHackTricksGrouped
    groups,    \* the groups of searchHackTricksGrouped before the sort and the cut
    parsed,    \* what the Markdown Structural Parser made of the page of this request
    lookup,    \* the search terms, the engine's answers and the scored candidates of a
               \* quick lookup
    listing,   \* the calls of listDirectoryTree made for this request and their tree
    inflight,  \* the quick lookups that run side by side, each with its own locals
    response   \* what the handler returned or threw

vars ==
    <<fs, pc, request, engine, execLog, fsLog, raw, groups, parsed, lookup, listing, inflight,
      response>>

(***************************************************************************)
(* Bounds of the check.                                                    *)
(***************************************************************************)
MaxPathLen == 4      \* caller-supplied paths: every string up to this length
MaxCategoryLen == 2  \* caller-supplied categories: every string up to this length
MaxQueryLen == 2     \* caller-supplied queries: every string up to this length
MaxOutLines == 3     \* lines of engine output drawn from the pool of lines
BulkFiles == 56      \* distinct matching files in the engine's large outputs
MaxHeaderLines == 3  \* lines of a document of headers and text
MaxFenceLines == 4   \* lines of a document of fences and code

None == <<"<none>">>   \* an absent optional argument (undefined)

(***************************************************************************)
(* String primitives (JavaScript String.prototype).                        *)
(***************************************************************************)
WhiteSpace == {" ", "\t", "\n", "\r"}       \* the members of \s the model uses
LineTerminators == {"\n", "\r"}             \* what "." does not match
Digits == <<"0", "1", "2", "3", "4", "5", "6", "7", "8", "9">>

SeqsUpTo(S, n) == UNION {[1..k -> S] : k \in 0..n}

StartsWith(s, p) == Len(p) <= Len(s) /\ SubSeq(s, 1, Len(p)) = p

EndsWith(s, p) == Len(p) <= Len(s) /\ SubSeq(s, Len(s) - Len(p) + 1, Len(s)) = p

\* the positions 1..Len(s) of s that satisfy Test, in increasing order
Positions(s, Test(_)) == SelectSeq([i \in 1..Len(s) |-> i], Test)

\* s.indexOf(p): the first position where p occurs, 0 when it does not
IndexOf(s, p) ==
    LET at == Positions(s, LAMBDA i : i + Len(p) - 1 <= Len(s) /\ SubSeq(s, i, i + Len(p) - 1) = p)
    IN  IF Len(p) = 0 THEN 1 ELSE IF Len(at) = 0 THEN 0 ELSE at[1]

Includes(s, p) == Len(p) = 0 \/ IndexOf(s, p) # 0

\* s.replace(p, r) with a string pattern: the first occurrence only
ReplaceFirst(s, p, r) ==
    LET i == IndexOf(s, p)
    IN  IF i = 0 THEN s
        ELSE SubSeq(s, 1, i - 1) \o r \o SubSeq(s, i + Len(p), Len(s))

\* s.replace(/c/g, d) for a one-character pattern
ReplaceAllChar(s, c, d) == [i \in 1..Len(s) |-> IF s[i] = c THEN d ELSE s[i]]

Trim(s) ==
    LET keep == Positions(s, LAMBDA i : s[i] \notin WhiteSpace)
    IN  IF Len(keep) = 0 THEN <<>> ELSE SubSeq(s, keep[1], keep[Len(keep)])

\* s.split(c) for a one-character separator: Len(result) = separators + 1
Split(s, c) ==
    LET at == Positions(s, LAMBDA i : s[i] = c)
        n  == Len(at)
        \* position of the k-th separator; 0 before the first, Len(s)+1 after the last
        pos(k) == IF k = 0 THEN 0 ELSE IF k = n + 1 THEN Len(s) + 1 ELSE at[k]
    IN  [k \in 1..(n + 1) |-> SubSeq(s, pos(k - 1) + 1, pos(k) - 1)]

\* array.slice(0, n) for a number n given in halves: n is truncated toward
\* zero, and a negative n counts from the end
TruncHalves(h) == IF h >= 0 THEN h \div 2 ELSE -((-h) \div 2)

Slice0(seq, h) ==
    LET n   == TruncHalves(h)
        end == IF n < 0 THEN (IF Len(seq) + n < 0 THEN 0 ELSE Len(seq) + n)
               ELSE (IF n > Len(seq) THEN Len(seq) ELSE n)
    IN  SubSeq(seq, 1, end)

\* array.slice(0, n) and string.slice(0, n) for a literal whole n >= 0
Take(seq, n) == SubSeq(seq, 1, IF n > Len(seq) THEN Len(seq) ELSE n)

\* c.repeat(n)
\* the member of a set of one member; the set is there to have a value
\* computed once, where it is bound
Only(S) == CHOOSE x \in S : TRUE

Rep(c, n) == [i \in 1..n |-> c]

RECURSIVE JoinWith(_, _)
\* array.join(sep)
JoinWith(parts, sep) ==
    IF Len(parts) = 0 THEN <<>>
    ELSE IF Len(parts) = 1 THEN parts[1]
    ELSE parts[1] \o sep \o JoinWith(Tail(parts), sep)

(***************************************************************************)
(* path.join and path.normalize of Node's posix path module.               *)
(***************************************************************************)
DotDot == <<".", ".">>

RECURSIVE normalizeString(_, _, _, _)
\* the segments left after "." and "" are dropped and ".." is resolved
normalizeString(segs, i, acc, allowAboveRoot) ==
    IF i > Len(segs) THEN acc
    ELSE LET s == segs[i] IN
         IF s = <<>> \/ s = <<".">> THEN normalizeString(segs, i + 1, acc, allowAboveRoot)
         ELSE IF s = DotDot THEN
              IF Len(acc) > 0 /\ acc[Len(acc)] # DotDot
              THEN normalizeString(segs, i + 1, SubSeq(acc, 1, Len(acc) - 1), allowAboveRoot)
              ELSE IF allowAboveRoot
                   THEN normalizeString(segs, i + 1, Append(acc, s), allowAboveRoot)
                   ELSE normalizeString(segs, i + 1, acc, allowAboveRoot)
         ELSE normalizeString(segs, i + 1, Append(acc, s), allowAboveRoot)

normalize(path) ==
    IF Len(path) = 0 THEN <<".">>
    ELSE LET isAbsolute == path[1] = "/"
             trailingSeparator == path[Len(path)] = "/"
             body == JoinWith(normalizeString(Split(path, "/"), 1, <<>>, ~isAbsolute), <<"/">>)
         IN  IF Len(body) = 0
             THEN (IF isAbsolute THEN <<"/">>
                   ELSE IF trailingSeparator THEN <<".", "/">> ELSE <<".">>)
             ELSE (IF isAbsolute THEN <<"/">> ELSE <<>>) \o body
                  \o (IF trailingSeparator THEN <<"/">> ELSE <<>>)

\* join(...args): the non-empty arguments joined by "/" and normalized
join(args) ==
    LET used == SelectSeq(args, LAMBDA a : Len(a) > 0)
    IN  IF Len(used) = 0 THEN <<".">> ELSE normalize(JoinWith(used, <<"/">>))

(***************************************************************************)
(* The corpus root.                                                        *)
(***************************************************************************)
\* __dirname: the directory of the running script (the build's dist directory)
Dirname == <<"/", "a", "p", "p", "/", "d", "i", "s", "t">>
Hacktricks == <<"h", "a", "c", "k", "t", "r", "i", "c", "k", "s">>
Src == <<"s", "r", "c">>

HACKTRICKS_PATH == join(<<Dirname, DotDot, Hacktricks>>)

\* a location is the corpus root or a descendant of it
UnderRoot(loc) ==
    LET n == normalize(loc)
    IN  n = HACKTRICKS_PATH \/ StartsWith(n, HACKTRICKS_PATH \o <<"/">>)

(***************************************************************************)
(* The filesystem: readFile(location, "utf-8").                            *)
(***************************************************************************)
File(content) == [type |-> "file", content |-> content]
Directory == [type |-> "dir", content |-> <<>>]
Denied == [type |-> "denied", content |-> <<>>]     \* a file the process may not read

\* a location without its trailing separator
Bare(loc) ==
    IF Len(loc) > 1 /\ loc[Len(loc)] = "/" THEN SubSeq(loc, 1, Len(loc) - 1) ELSE loc

\* the outcome of readFile on a disk d: the content, or the code of the error thrown
readFile(d, loc) ==
    LET key == Bare(loc)
        throw(code) == [code |-> code, content |-> <<>>]
    IN  IF key \notin DOMAIN d
        THEN (IF \E i \in 1..Len(key) :
                    /\ key[i] = "/"
                    /\ SubSeq(key, 1, i - 1) \in DOMAIN d
                    /\ d[SubSeq(key, 1, i - 1)].type = "file"
              THEN throw("ENOTDIR") ELSE throw("ENOENT"))
        ELSE IF d[key].type = "dir" THEN throw("EISDIR")
        ELSE IF d[key].type = "denied" THEN throw("EACCES")
        ELSE IF key # loc THEN throw("ENOTDIR")
        ELSE [code |-> "OK", content |-> d[key].content]

(***************************************************************************)
(* getPage: the Path Safety Gate and the read.                             *)
(***************************************************************************)
Thrown(message, reads) ==
    [kind |-> "error", message |-> message, content |-> <<>>, reads |-> reads]

\* a gate that keeps only the emptiness check and the prefix check
pathGate_prefixOnly(path) ==
    IF Len(path) = 0 \/ Len(Trim(path)) = 0
    THEN <<"File path cannot be empty">>
    ELSE IF ~StartsWith(join(<<HACKTRICKS_PATH, ReplaceAllChar(path, "\\", "/")>>),
                        HACKTRICKS_PATH)
    THEN <<"Invalid file path: must be within HackTricks directory">>
    ELSE <<>>

\* the checks of getPage before the read: the error it throws, <<>> when it passes
pathGate(path) ==
    LET normalizedPath == ReplaceAllChar(path, "\\", "/")
        filePath == join(<<HACKTRICKS_PATH, normalizedPath>>)
    IN  IF Len(path) = 0 \/ Len(Trim(path)) = 0
        THEN <<"File path cannot be empty">>
        ELSE IF Includes(normalizedPath, DotDot) \/ StartsWith(normalizedPath, <<"/">>)
        THEN <<"Invalid file path: directory traversal not allowed">>
        ELSE IF ~StartsWith(filePath, HACKTRICKS_PATH)
        THEN <<"Invalid file path: must be within HackTricks directory">>
        ELSE <<>>

\* messages that name the normalized path: File not found: ${normalizedPath}
getPage_normalized(d, path) ==
    LET normalizedPath == ReplaceAllChar(path, "\\", "/")
        filePath == join(<<HACKTRICKS_PATH, normalizedPath>>)
        read == readFile(d, filePath)
    IN  IF pathGate(path) # <<>> THEN Thrown(pathGate(path), <<>>)
        ELSE IF read.code = "OK"
        THEN [kind |-> "ok", message |-> <<>>, content |-> read.content,
              reads |-> <<filePath>>]
        ELSE IF read.code = "ENOENT"
        THEN Thrown(<<"File not found: ">> \o normalizedPath, <<filePath>>)
        ELSE IF read.code = "EISDIR"
        THEN Thrown(<<"Path is a directory, not a file: ">> \o normalizedPath, <<filePath>>)
        ELSE Thrown(<<read.code>>, <<filePath>>)

getPage(d, path) ==
    LET normalizedPath == ReplaceAllChar(path, "\\", "/")
        filePath == join(<<HACKTRICKS_PATH, normalizedPath>>)
        read == readFile(d, filePath)
    IN  IF pathGate(path) # <<>> THEN Thrown(pathGate(path), <<>>)
        ELSE IF read.code = "OK"
        THEN [kind |-> "ok", message |-> <<>>, content |-> read.content,
              reads |-> <<filePath>>]
        ELSE IF read.code = "ENOENT"
        THEN Thrown(<<"File not found: ">> \o path, <<filePath>>)
        ELSE IF read.code = "EISDIR"
        THEN Thrown(<<"Path is a directory, not a file: ">> \o path, <<filePath>>)
        ELSE Thrown(<<read.code>>, <<filePath>>)

(***************************************************************************)
(* The Markdown Structural Parser.                                         *)
(***************************************************************************)
\* the length of the longest run of members of C that starts at position i of s
RunFrom(s, i, C) ==
    LET stop == Positions(s, LAMBDA j : j >= i /\ s[j] \notin C)
    IN  IF Len(stop) = 0 THEN Len(s) - i + 1 ELSE stop[1] - i

\* line.match(/^(#{1,6})\s+(.+)$/): [matched, level, text], text being match[2]
headerMatch(line) ==
    LET hashes == RunFrom(line, 1, {"#"})
        spaces == RunFrom(line, hashes + 1, WhiteSpace)
        rest   == SubSeq(line, hashes + spaces + 1, Len(line))
        no     == [matched |-> FALSE, level |-> 0, text |-> <<>>]
    IN  IF hashes < 1 \/ hashes > 6 \/ spaces < 1 THEN no
        ELSE IF \E i \in 1..Len(rest) : rest[i] \in LineTerminators THEN no
        ELSE IF Len(rest) > 0 THEN [matched |-> TRUE, level |-> hashes, text |-> rest]
        \* nothing follows the white space: \s+ gives its last character back to (.+)
        ELSE IF spaces >= 2 /\ line[Len(line)] \notin LineTerminators
        THEN [matched |-> TRUE, level |-> hashes, text |-> <<line[Len(line)]>>]
        ELSE no

extractHeaders(content) ==
    LET lines == Split(content, "\n")
        at == Positions(lines, LAMBDA i : headerMatch(lines[i]).matched)
    IN  [k \in 1..Len(at) |->
            [level |-> headerMatch(lines[at[k]]).level,
             text  |-> Trim(headerMatch(lines[at[k]]).text),
             line  |-> at[k]]]

\* content.match(/^#\s+(.+)$/m) at position i: [matched, text], text being match[1]
titleMatchAt(content, i) ==
    LET spaces == RunFrom(content, i + 1, WhiteSpace)
        from   == i + spaces + 1
        \* the characters from there to the end of the line
        ends   == Positions(content, LAMBDA p : p >= from /\ content[p] \in LineTerminators)
        lineLeft == IF Len(ends) = 0 THEN Len(content) - from + 1 ELSE ends[1] - from
        back   == Positions(content, LAMBDA p : p >= i + 2 /\ content[p] \notin LineTerminators)
        no     == [matched |-> FALSE, text |-> <<>>]
    IN  IF ~(i = 1 \/ content[i - 1] \in LineTerminators) THEN no
        ELSE IF content[i] # "#" \/ spaces < 1 THEN no
        ELSE IF from <= Len(content)
        THEN [matched |-> TRUE,
              text |-> SubSeq(content, from, from + lineLeft - 1)]
        \* the white space runs to the end of the content: \s+ gives characters
        \* back until (.+) can take one that is no line terminator
        ELSE IF Len(back) > 0 THEN [matched |-> TRUE, text |-> <<content[back[Len(back)]]>>]
        ELSE no

extractTitle(content) ==
    LET at == Positions(content, LAMBDA i : titleMatchAt(content, i).matched)
    IN  IF Len(at) = 0 THEN <<"U", "n", "t", "i", "t", "l", "e", "d">>
        ELSE Trim(titleMatchAt(content, at[1]).text)

\* a loop that compares with <: header.line < targetLine
findNearestSection_strict(headers, targetLine) ==
    LET after == Positions(headers, LAMBDA k : headers[k].line >= targetLine)
        seen  == IF Len(after) = 0 THEN Len(headers) ELSE after[1] - 1
    IN  IF seen = 0 THEN None ELSE headers[seen].text

\* the text of the nearest header, None standing for null
findNearestSection(headers, targetLine) ==
    LET after == Positions(headers, LAMBDA k : headers[k].line > targetLine)
        \* the loop breaks at the first header past the target line
        seen  == IF Len(after) = 0 THEN Len(headers) ELSE after[1] - 1
    IN  IF seen = 0 THEN None ELSE headers[seen].text

\* String.prototype.toLowerCase, on the letters of the basic Latin alphabet
UpperLetters == <<"A", "B", "C", "D", "E", "F", "G", "H", "I", "J", "K", "L", "M", "N", "O", "P", "Q", "R", "S", "T", "U", "V", "W", "X", "Y", "Z">>
LowerLetters == <<"a", "b", "c", "d", "e", "f", "g", "h", "i", "j", "k", "l", "m", "n", "o", "p", "q", "r", "s", "t", "u", "v", "w", "x", "y", "z">>
toLowerCase(s) ==
    [i \in 1..Len(s) |->
        IF \E k \in 1..Len(UpperLetters) : UpperLetters[k] = s[i]
        THEN LowerLetters[CHOOSE k \in 1..Len(UpperLetters) : UpperLetters[k] = s[i]]
        ELSE s[i]]

\* lines[i].match(/^(#{1,6})\s+/): the length of match[1], 0 when there is no match
headingLevel(line) ==
    IF RunFrom(line, 1, {"#"}) \in 1..6
       /\ RunFrom(line, RunFrom(line, 1, {"#"}) + 1, WhiteSpace) >= 1
    THEN RunFrom(line, 1, {"#"})
    ELSE 0

\* a slice that starts after the header line: lines.slice(startLine + 1, endLine)
sectionFrom_body(lines, startLine, startLevel) ==
    LET ends == Positions(lines, LAMBDA i : /\ i > startLine
                                            /\ headingLevel(lines[i]) # 0
                                            /\ headingLevel(lines[i]) <= startLevel)
    IN  JoinWith(SubSeq(lines, startLine + 1,
                        IF Len(ends) = 0 THEN Len(lines) ELSE ends[1] - 1), <<"\n">>)

\* the second loop of extractSection and its return: the lines from the start
\* line to the next line whose level is at most the start level
sectionFrom(lines, startLine, startLevel) ==
    LET ends == Positions(lines, LAMBDA i : /\ i > startLine
                                            /\ headingLevel(lines[i]) # 0
                                            /\ headingLevel(lines[i]) <= startLevel)
    IN  JoinWith(SubSeq(lines, startLine,
                        IF Len(ends) = 0 THEN Len(lines) ELSE ends[1] - 1), <<"\n">>)

\* the first loop of extractSection: the lines whose match[2], lower-cased,
\* includes the lower-cased section name
sectionStarts(lines, searchLower) ==
    Positions(lines, LAMBDA i :
        /\ headerMatch(lines[i]).matched
        /\ Includes(toLowerCase(headerMatch(lines[i]).text), searchLower))

\* extractSection after the split of the content, None standing for null
sectionOfLines(lines, starts) ==
    IF Len(starts) = 0 THEN None
    ELSE sectionFrom(lines, starts[1], headerMatch(lines[starts[1]]).level)

extractSection(content, sectionName) ==
    sectionOfLines(Split(content, "\n"),
                   sectionStarts(Split(content, "\n"), toLowerCase(sectionName)))

\* the characters of \w
WordChars ==
    {UpperLetters[k] : k \in 1..Len(UpperLetters)}
    \cup {LowerLetters[k] : k \in 1..Len(LowerLetters)}
    \cup {Digits[k] : k \in 1..Len(Digits)} \cup {"_"}
\* the grave accent of a code fence, which a TLA+ string cannot hold
Backtick == "<grave>"
Fence == <<Backtick, Backtick, Backtick>>
IsFence(content, p) == p + 2 <= Len(content) /\ SubSeq(content, p, p + 2) = Fence

\* the first position at or after p where a fence begins, 0 when there is none
nextFence(content, p) ==
    LET at == Positions(content, LAMBDA q : q >= p /\ IsFence(content, q))
    IN  IF Len(at) = 0 THEN 0 ELSE at[1]

\* where the body of a block opened at p begins: after the fence, the \w* run
\* and the newline that must follow it
bodyStart(content, p) == p + 3 + RunFrom(content, p + 3, WordChars) + 1

\* the regular expression of extractCodeBlocks, a fence, (\w*), \n, ([\s\S]*?)
\* and a fence, matches at p
blockAt(content, p) ==
    /\ IsFence(content, p)
    /\ bodyStart(content, p) - 1 <= Len(content)
    /\ content[bodyStart(content, p) - 1] = "\n"
    /\ nextFence(content, bodyStart(content, p)) # 0

\* the block pushed for the match at p
blockOf(content, p, closing) ==
    [language |-> IF RunFrom(content, p + 3, WordChars) = 0 THEN <<"t", "e", "x", "t">>
                  ELSE SubSeq(content, p + 3, bodyStart(content, p) - 2),
     code |-> Trim(SubSeq(content, bodyStart(content, p), closing - 1))]

RECURSIVE blocksFrom(_, _, _)
\* the loop of regex.exec from lastIndex, over the positions where the regular
\* expression matches
blocksFrom(content, opens, lastIndex) ==
    LET left == SelectSeq(opens, LAMBDA p : p >= lastIndex)
    IN  IF Len(left) = 0 THEN <<>>
        ELSE <<blockOf(content, left[1], nextFence(content, bodyStart(content, left[1])))>>
             \o blocksFrom(content, left,
                           nextFence(content, bodyStart(content, left[1])) + 3)

extractCodeBlocks(content) ==
    blocksFrom(content, Positions(content, LAMBDA p : blockAt(content, p)), 1)

(***************************************************************************)
(* getPageOutline, getPageSection and getPageCheatsheet: each returns      *)
(* [kind, message, content, reads, parsed].                                *)
(***************************************************************************)
\* what the parser made of a page: nothing yet
NoParsed == [doc |-> None, headers |-> <<>>, section |-> None, blocks |-> <<>>,
             targetLine |-> 0, nearest |-> None]

\* the failure of getPage passes through
failedPage(page) ==
    [kind |-> "error", message |-> page.message, content |-> <<>>,
     reads |-> page.reads, parsed |-> NoParsed]

\* indent, hashes and text of one header of the outline
outlineLine(h) == Rep(" ", 2 * (h.level - 1)) \o Rep("#", h.level) \o <<" ">> \o h.text

outlineOf(page, headers) ==
    [kind |-> "ok", message |-> <<>>,
     content |-> IF Len(headers) = 0 THEN <<"No headers found in this file.">>
                 ELSE JoinWith([k \in 1..Len(headers) |-> outlineLine(headers[k])], <<"\n">>),
     reads |-> page.reads,
     parsed |-> [NoParsed EXCEPT !.doc = page.content, !.headers = headers]]

outlineOfPage(page) ==
    IF page.kind = "error" THEN failedPage(page)
    ELSE outlineOf(page, extractHeaders(page.content))

getPageOutline(d, path) == outlineOfPage(getPage(d, path))

sectionOf(page, path, sectionName, section) ==
    IF section = None \/ Len(section) = 0
    THEN [kind |-> "error",
          message |-> <<"Section \"">> \o sectionName \o <<"\" not found in ">> \o path,
          content |-> <<>>, reads |-> page.reads,
          parsed |-> [NoParsed EXCEPT !.doc = page.content]]
    ELSE [kind |-> "ok", message |-> <<>>, content |-> section, reads |-> page.reads,
          parsed |-> [NoParsed EXCEPT !.doc = page.content, !.section = section]]

sectionOfPage(page, path, sectionName) ==
    IF page.kind = "error" THEN failedPage(page)
    ELSE sectionOf(page, path, sectionName, extractSection(page.content, sectionName))

getPageSection(d, path, sectionName) == sectionOfPage(getPage(d, path), path, sectionName)

\* a block between fences, as the cheatsheet prints it
cheatsheetBlock(b) == Fence \o b.language \o <<"\n">> \o b.code \o <<"\n">> \o Fence

cheatsheetOf(page, blocks) ==
    [kind |-> "ok", message |-> <<>>,
     content |-> IF Len(blocks) = 0 THEN <<"No code blocks found in this file.">>
                 ELSE JoinWith([k \in 1..Len(blocks) |-> cheatsheetBlock(blocks[k])],
                               <<"\n", "\n">>),
     reads |-> page.reads,
     parsed |-> [NoParsed EXCEPT !.doc = page.content, !.blocks = blocks]]

cheatsheetOfPage(page) ==
    IF page.kind = "error" THEN failedPage(page)
    ELSE cheatsheetOf(page, extractCodeBlocks(page.content))

getPageCheatsheet(d, path) == cheatsheetOfPage(getPage(d, path))

(***************************************************************************)
(* The Search Adapter: searchHackTricks.                                   *)
(***************************************************************************)
DefaultLimit == 20     \* (args.limit as number) || 20
MaxLimit == 50         \* Math.min(..., 50)
RawFactor == 3         \* searchHackTricks(query, category, limit * 3)
MaxSections == 5       \* Array.from(sections).slice(0, 5)
MaxTopMatches == 3     \* matches.slice(0, 3)
MaxContent == 150      \* m.content.length > 150

Ellipsis == <<".", ".", ".">>

\* the engine's answer: the exit status or error code of the child process (an
\* exit status written as its digits; "0" is a normal exit), its standard
\* output and the message of the error execFile rejects with
Answer(code, stdout, message) == [code |-> code, stdout |-> stdout, message |-> message]
NotInvoked == Answer("-", <<>>, <<>>)

rgArgs(query, searchPath) ==
    << <<"-", "n">>, <<"-", "i">>, <<"-", "-", "t", "y", "p", "e">>, <<"m", "d">>,
       query, searchPath >>

\* How the engine reads the argument vector it is spawned with (the usage of
\* rg is: rg [OPTIONS] PATTERN [PATH ...]).  An argument that begins with "-"
\* and is longer than "-" is an option, until an argument "--" ends the options.
IsOption(arg) == Len(arg) >= 2 /\ arg[1] = "-"
EndOfOptions == <<"-", "-">>
TypeOption == <<"-", "-", "t", "y", "p", "e">>

\* the places of argv after an end-of-options argument
afterOptions(argv, i) == \E j \in 1..(i - 1) : argv[j] = EndOfOptions

\* the arguments the engine reads as options
optionsRead(argv) ==
    LET at == Positions(argv, LAMBDA i : IsOption(argv[i]) /\ ~afterOptions(argv, i))
    IN  [k \in 1..Len(at) |-> argv[at[k]]]

\* the arguments the engine reads as positional: neither an option nor the
\* value of --type
positionalsRead(argv) ==
    LET at == Positions(argv, LAMBDA i :
                  \/ afterOptions(argv, i)
                  \/ /\ ~IsOption(argv[i])
                     /\ ~(i > 1 /\ argv[i - 1] = TypeOption))
    IN  [k \in 1..Len(at) |-> argv[at[k]]]

\* the first positional argument is the pattern, the others are the paths
patternRead(positionals) == IF Len(positionals) = 0 THEN None ELSE Head(positionals)
pathsRead(positionals) == IF Len(positionals) = 0 THEN <<>> ELSE Tail(positionals)

\* parseInt(digits, 10) of a string of decimal digits
RECURSIVE parseInt(_)
parseInt(digits) ==
    IF Len(digits) = 0 THEN 0
    ELSE 10 * parseInt(SubSeq(digits, 1, Len(digits) - 1))
         + (CHOOSE v \in 0..9 : Digits[v + 1] = digits[Len(digits)])

IsDigit(c) == \E v \in 1..10 : Digits[v] = c

\* line.match(/^([^:]+):(\d+):(.+)$/) and the record built from it
parseLine(line) ==
    LET c1     == IndexOf(line, <<":">>)
        digits == RunFrom(line, c1 + 1, {"0", "1", "2", "3", "4", "5", "6", "7", "8", "9"})
        c2     == c1 + digits + 1
        rest   == SubSeq(line, c2 + 1, Len(line))
        no     == [matched |-> FALSE, file |-> <<>>, line |-> 0, content |-> <<>>]
    IN  IF c1 < 2 \/ digits < 1 \/ c2 > Len(line) THEN no
        ELSE IF line[c2] # ":" \/ Len(rest) = 0 THEN no
        ELSE IF \E i \in 1..Len(rest) : rest[i] \in LineTerminators THEN no
        ELSE [matched |-> TRUE,
              file    |-> ReplaceFirst(SubSeq(line, 1, c1 - 1), HACKTRICKS_PATH \o <<"/">>, <<>>),
              line    |-> parseInt(SubSeq(line, c1 + 1, c2 - 1)),
              content |-> Trim(rest)]

\* the records of the engine's standard output, in order
parseOutput(stdout) ==
    LET lines == Split(Trim(stdout), "\n")
        at == Positions(lines, LAMBDA i : parseLine(lines[i]).matched)
    IN  [k \in 1..Len(at) |->
            [file    |-> parseLine(lines[at[k]]).file,
             line    |-> parseLine(lines[at[k]]).line,
             content |-> parseLine(lines[at[k]]).content]]

\* a validation that does not trim the query
emptyQuery_untrimmed(query) == query = None \/ Len(query) = 0

\* !query || query.trim().length === 0
emptyQuery(query) == query = None \/ Len(query) = 0 \/ Len(Trim(query)) = 0

\* category ? join(HACKTRICKS_PATH, "src", category) : HACKTRICKS_PATH
searchPathOf(category) ==
    IF category # None /\ Len(category) > 0
    THEN join(<<HACKTRICKS_PATH, Src, category>>)
    ELSE HACKTRICKS_PATH

\* a catch block that answers every error with no results
searchCatch_swallow(code, message) == [kind |-> "ok", records |-> <<>>, message |-> <<>>]

\* the catch block: the result for an error with the given code and message
searchCatch(code, message) ==
    IF code = "1" THEN [kind |-> "ok", records |-> <<>>, message |-> <<>>]
    ELSE IF code = "2"
    THEN [kind |-> "error", records |-> <<>>,
          message |-> <<"Invalid search pattern: ">> \o message]
    ELSE [kind |-> "error", records |-> <<>>, message |-> <<"Search failed: ">> \o message]

\* searchHackTricks(query, category, limit), the limit in halves, answer being
\* what the engine answers if it is invoked: [kind, records, message, execs]
searchHackTricks(query, category, limit, answer) ==
    LET with(r, execs) == [kind |-> r.kind, records |-> r.records,
                           message |-> r.message, execs |-> execs]
        argv == rgArgs(query, searchPathOf(category))
    IN  IF emptyQuery(query)
        THEN with(searchCatch("undefined", <<"Search query cannot be empty">>), <<>>)
        ELSE IF answer.code = "0"
        THEN with([kind |-> "ok", records |-> Slice0(parseOutput(answer.stdout), limit),
                   message |-> <<>>], <<argv>>)
        ELSE with(searchCatch(answer.code, answer.message), <<argv>>)

(***************************************************************************)
(* The Result Aggregator: searchHackTricksGrouped.                         *)
(***************************************************************************)
\* the distinct members of a sequence in first-seen order (Map and Set keep
\* insertion order)
FirstSeen(seq) ==
    LET at == Positions(seq, LAMBDA i : \A j \in 1..(i - 1) : seq[j] # seq[i])
    IN  [k \in 1..Len(at) |-> seq[at[k]]]

\* a preview that keeps the content of its matches whole
topMatchesOf_whole(matches) ==
    [k \in 1..Len(Take(matches, MaxTopMatches)) |->
        [line |-> matches[k].line, content |-> matches[k].content]]

\* matches.slice(0, 3).map(...): the preview of a file's matches
topMatchesOf(matches) ==
    LET top == Take(matches, MaxTopMatches)
    IN  [k \in 1..Len(top) |->
            [line    |-> top[k].line,
             content |-> IF Len(top[k].content) > MaxContent
                         THEN Take(top[k].content, MaxContent) \o Ellipsis
                         ELSE top[k].content]]

\* the Set of sections of a file's matches, cut to five
sectionsOf(headers, matches) ==
    LET near == [k \in 1..Len(matches) |-> findNearestSection(headers, matches[k].line)]
    IN  Take(FirstSeen(SelectSeq(near, LAMBDA t : t # None /\ Len(t) > 0)), MaxSections)

\* file.split("/").pop()?.replace(".md", "") || "Unknown"
fallbackTitle(file) ==
    LET parts == Split(file, "/")
        name  == ReplaceFirst(parts[Len(parts)], <<".", "m", "d">>, <<>>)
    IN  IF Len(name) = 0 THEN <<"U", "n", "k", "n", "o", "w", "n">> ELSE name

\* the group pushed for one file, with or without its content
groupOf(d, file, matches) ==
    LET read == readFile(d, join(<<HACKTRICKS_PATH, file>>))
    IN  IF read.code = "OK"
        THEN [file |-> file,
              title |-> extractTitle(read.content),
              matchCount |-> Len(matches),
              relevantSections |-> sectionsOf(extractHeaders(read.content), matches),
              topMatches |-> topMatchesOf(matches)]
        ELSE [file |-> file,
              title |-> fallbackTitle(file),
              matchCount |-> Len(matches),
              relevantSections |-> <<>>,
              topMatches |-> topMatchesOf(matches)]

\* a return of the groups in the order of their files
sortByMatchCount_unsorted(gs) == gs

\* groupedResults.sort((a, b) => b.matchCount - a.matchCount): a stable sort
sortByMatchCount(gs) ==
    LET counts == [i \in 1..Len(gs) |-> gs[i].matchCount]
        \* the place of gs[i]: after the larger counts and the equal counts before it
        rank == [i \in 1..Len(gs) |->
                    Len(Positions(gs, LAMBDA j : counts[j] > counts[i]
                                                 \/ (j < i /\ counts[j] = counts[i]))) + 1]
    IN  [k \in 1..Len(gs) |-> gs[CHOOSE i \in 1..Len(gs) : rank[i] = k]]

\* a return of every group
cutToLimit_all(gs, limit) == gs

\* groupedResults.slice(0, limit), the limit in halves
cutToLimit(gs, limit) == Slice0(gs, limit)

\* the files of the raw results, in the order the Map first saw them
filesOf(records) == FirstSeen([k \in 1..Len(records) |-> records[k].file])

\* the loop over the Map: one group per file, in insertion order
groupAll(d, records, files) ==
    [k \in 1..Len(files) |->
        groupOf(d, files[k], SelectSeq(records, LAMBDA r : r.file = files[k]))]

\* the files read by the loop, in order
readsOf(files) == [k \in 1..Len(files) |-> join(<<HACKTRICKS_PATH, files[k]>>)]

\* what searchHackTricksGrouped returns once the raw results are grouped
rankAndCut(rawResults, grouped, files, limit) ==
    [kind |-> "ok", message |-> <<>>,
     results |-> cutToLimit(sortByMatchCount(grouped), limit),
     grouped |-> grouped, raw |-> rawResults, execs |-> rawResults.execs,
     reads |-> readsOf(files)]

\* the body of searchHackTricksGrouped after the raw search: an error of the
\* raw search propagates, a success is grouped
groupRaw(d, rawResults, files, limit) ==
    IF rawResults.kind = "error"
    THEN [kind |-> "error", message |-> rawResults.message, results |-> <<>>,
          grouped |-> <<>>, raw |-> rawResults, execs |-> rawResults.execs,
          reads |-> <<>>]
    ELSE rankAndCut(rawResults, groupAll(d, rawResults.records, files), files, limit)

\* as groupRaw, with the files of the raw results
groupFiles(d, rawResults, limit) ==
    groupRaw(d, rawResults, filesOf(rawResults.records), limit)

\* searchHackTricksGrouped(query, category, limit) on disk d:
\* [kind, message, results, grouped, raw, execs, reads]
searchHackTricksGrouped(d, query, category, limit, answer) ==
    groupFiles(d, searchHackTricks(query, category, limit * RawFactor, answer), limit)

\* Math.min((args.limit as number) || 20, 50), in halves
limitOf(arg) ==
    LET given == IF arg.given /\ arg.halves # 0 THEN arg.halves ELSE 2 * DefaultLimit
    IN  IF given < 2 * MaxLimit THEN given ELSE 2 * MaxLimit

(***************************************************************************)
(* The Quick-Lookup Resolver: quickLookup.                                 *)
(***************************************************************************)
TitleBonus == 100        \* score += 100
ReadmeBonus == 200       \* score += 200
FolderBonus == 50        \* score += 50
SectionBonus == 10       \* score += 10
LookupLimit == 10        \* searchHackTricksGrouped(term, category, 10)
MinSectionLength == 50   \* section.length > 50
MaxCodeBlocks == 5       \* codeBlocks.slice(0, 5)

\* the own properties of SEARCH_ALIASES
SEARCH_ALIASES ==
    <<        [key |-> <<"s", "q", "l", "i">>,
        terms |-> <<<<"S", "Q", "L", " ", "i", "n", "j", "e", "c", "t", "i", "o", "n">>,
                    <<"S", "Q", "L", "i">>>>],
       [key |-> <<"x", "s", "s">>,
        terms |-> <<<<"C", "r", "o", "s", "s", "-", "s", "i", "t", "e", " ", "s", "c", "r", "i", "p", "t", "i", "n", "g">>,
                    <<"X", "S", "S">>>>],
       [key |-> <<"r", "c", "e">>,
        terms |-> <<<<"R", "e", "m", "o", "t", "e", " ", "c", "o", "d", "e", " ", "e", "x", "e", "c", "u", "t", "i", "o", "n">>,
                    <<"R", "C", "E">>,
                    <<"c", "o", "m", "m", "a", "n", "d", " ", "i", "n", "j", "e", "c", "t", "i", "o", "n">>>>],
       [key |-> <<"l", "f", "i">>,
        terms |-> <<<<"L", "o", "c", "a", "l", " ", "f", "i", "l", "e", " ", "i", "n", "c", "l", "u", "s", "i", "o", "n">>,
                    <<"L", "F", "I">>>>],
       [key |-> <<"r", "f", "i">>,
        terms |-> <<<<"R", "e", "m", "o", "t", "e", " ", "f", "i", "l", "e", " ", "i", "n", "c", "l", "u", "s", "i", "o", "n">>,
                    <<"R", "F", "I">>>>],
       [key |-> <<"s", "s", "r", "f">>,
        terms |-> <<<<"S", "e", "r", "v", "e", "r", "-", "s", "i", "d", "e", " ", "r", "e", "q", "u", "e", "s", "t", " ", "f", "o", "r", "g", "e", "r", "y">>,
                    <<"S", "S", "R", "F">>>>],
       [key |-> <<"c", "s", "r", "f">>,
        terms |-> <<<<"C", "r", "o", "s", "s", "-", "s", "i", "t", "e", " ", "r", "e", "q", "u", "e", "s", "t", " ", "f", "o", "r", "g", "e", "r", "y">>,
                    <<"C", "S", "R", "F">>>>],
       [key |-> <<"x", "x", "e">>,
        terms |-> <<<<"X", "M", "L", " ", "e", "x", "t", "e", "r", "n", "a", "l", " ", "e", "n", "t", "i", "t", "y">>,
                    <<"X", "X", "E">>>>],
       [key |-> <<"s", "s", "t", "i">>,
        terms |-> <<<<"S", "e", "r", "v", "e", "r", "-", "s", "i", "d", "e", " ", "t", "e", "m", "p", "l", "a", "t", "e", " ", "i", "n", "j", "e", "c", "t", "i", "o", "n">>,
                    <<"S", "S", "T", "I">>>>],
       [key |-> <<"i", "d", "o", "r">>,
        terms |-> <<<<"I", "n", "s", "e", "c", "u", "r", "e", " ", "d", "i", "r", "e", "c", "t", " ", "o", "b", "j", "e", "c", "t", " ", "r", "e", "f", "e", "r", "e", "n", "c", "e">>,
                    <<"I", "D", "O", "R">>>>],
       [key |-> <<"j", "w", "t">>,
        terms |-> <<<<"J", "S", "O", "N", " ", "W", "e", "b", " ", "T", "o", "k", "e", "n">>,
                    <<"J", "W", "T">>>>],
       [key |-> <<"s", "u", "i", "d">>,
        terms |-> <<<<"S", "U", "I", "D">>,
                    <<"s", "e", "t", "u", "i", "d">>>>],
       [key |-> <<"p", "r", "i", "v", "e", "s", "c">>,
        terms |-> <<<<"p", "r", "i", "v", "i", "l", "e", "g", "e", " ", "e", "s", "c", "a", "l", "a", "t", "i", "o", "n">>,
                    <<"p", "r", "i", "v", "e", "s", "c">>>>],
       [key |-> <<"d", "e", "s", "e", "r", "i", "a", "l", "i", "z", "a", "t", "i", "o", "n">>,
        terms |-> <<<<"d", "e", "s", "e", "r", "i", "a", "l", "i", "z", "a", "t", "i", "o", "n">>,
                    <<"i", "n", "s", "e", "c", "u", "r", "e", " ", "d", "e", "s", "e", "r", "i", "a", "l", "i", "z", "a", "t", "i", "o", "n">>>>] >>

\* the lower-case property names that the object SEARCH_ALIASES inherits from
\* Object.prototype: its constructor, a function, and its prototype, an object
InheritedKeys == {<<"c", "o", "n", "s", "t", "r", "u", "c", "t", "o", "r">>, <<"_", "_", "p", "r", "o", "t", "o", "_", "_">>}

PRIORITY_SECTIONS ==
    << <<"e", "x", "p", "l", "o", "i", "t", "a", "t", "i", "o", "n">>,
       <<"e", "x", "p", "l", "o", "i", "t">>,
       <<"e", "x", "a", "m", "p", "l", "e">>,
       <<"p", "o", "c">>,
       <<"p", "r", "o", "o", "f", " ", "o", "f", " ", "c", "o", "n", "c", "e", "p", "t">>,
       <<"p", "a", "y", "l", "o", "a", "d">>,
       <<"b", "y", "p", "a", "s", "s">>,
       <<"a", "t", "t", "a", "c", "k">>,
       <<"a", "b", "u", "s", "e">>,
       <<"t", "e", "c", "h", "n", "i", "q", "u", "e">> >>

\* SEARCH_ALIASES[topicLower]: "own" with the terms of an own property,
\* "inherited" for a value that is truthy and cannot be spread, "undefined"
aliasesOf(topicLower) ==
    LET own == SelectSeq(SEARCH_ALIASES, LAMBDA e : e.key = topicLower)
    IN  IF Len(own) > 0 THEN [kind |-> "own", terms |-> own[1].terms]
        ELSE IF topicLower \in InheritedKeys THEN [kind |-> "inherited", terms |-> <<>>]
        ELSE [kind |-> "undefined", terms |-> <<>>]

\* the search terms: [topic], spread with the aliases when the table gives a
\* truthy value; the spread of a value that is not iterable throws a TypeError
termsFrom(topic, aliases) ==
    IF aliases.kind = "own" THEN [ok |-> TRUE, terms |-> <<topic>> \o aliases.terms]
    ELSE IF aliases.kind = "inherited" THEN [ok |-> FALSE, terms |-> <<>>]
    ELSE [ok |-> TRUE, terms |-> <<topic>>]

searchTerms(topic) == termsFrom(topic, aliasesOf(toLowerCase(topic)))

\* result.relevantSections.some((s) => PRIORITY_SECTIONS.some((p) => ...))
hasExploitSection(relevantSections) ==
    \E i \in 1..Len(relevantSections) : \E j \in 1..Len(PRIORITY_SECTIONS) :
        Includes(toLowerCase(relevantSections[i]), PRIORITY_SECTIONS[j])

bonus(earned, points) == IF earned THEN points ELSE 0

\* a score that gives the title 200 and the README page 100
scoreFrom_titleFirst(result, titleLower, termLower, pathLower, topicLower) ==
    result.matchCount
    + bonus(Includes(titleLower, termLower) \/ Includes(titleLower, topicLower), ReadmeBonus)
    + bonus(EndsWith(pathLower, <<"r", "e", "a", "d", "m", "e", ".", "m", "d">>) /\ Includes(pathLower, topicLower), TitleBonus)
    + bonus(\/ Includes(pathLower, <<"/">> \o topicLower)
            \/ Includes(pathLower, topicLower \o <<"-">>), FolderBonus)
    + bonus(hasExploitSection(result.relevantSections), SectionBonus)

\* the score of a result of the search for a term
scoreFrom(result, titleLower, termLower, pathLower, topicLower) ==
    result.matchCount
    + bonus(Includes(titleLower, termLower) \/ Includes(titleLower, topicLower), TitleBonus)
    + bonus(EndsWith(pathLower, <<"r", "e", "a", "d", "m", "e", ".", "m", "d">>) /\ Includes(pathLower, topicLower), ReadmeBonus)
    + bonus(\/ Includes(pathLower, <<"/">> \o topicLower)
            \/ Includes(pathLower, topicLower \o <<"-">>), FolderBonus)
    + bonus(hasExploitSection(result.relevantSections), SectionBonus)

scoreOf(result, term, topicLower) ==
    scoreFrom(result, toLowerCase(result.title), toLowerCase(term),
              toLowerCase(result.file), topicLower)

\* the candidates of one term, each with its score, in the order of the results
visitsOfTerm(results, term, topicLower) ==
    [i \in 1..Len(results) |->
        [term |-> term, file |-> results[i].file,
         score |-> scoreOf(results[i], term, topicLower), result |-> results[i]]]

\* the searches with a limit of 100 groups
searchesOf_wide(d, terms, category, answers) ==
    [k \in 1..Len(terms) |->
        searchHackTricksGrouped(d, terms[k], category, 20 * LookupLimit, answers[k])]

\* searchHackTricksGrouped(term, category, 10) for each term, the engine
\* answering the k-th search with answers[k]
searchesOf(d, terms, category, answers) ==
    [k \in 1..Len(terms) |->
        searchHackTricksGrouped(d, terms[k], category, 2 * LookupLimit, answers[k])]

\* the (term, candidate) pairs the loops visit, in order; the catch discards a
\* search that threw
visitsOf(searches, terms, topicLower) ==
    JoinWith([k \in 1..Len(terms) |->
                 IF searches[k].kind = "ok"
                 THEN visitsOfTerm(searches[k].results, terms[k], topicLower)
                 ELSE <<>>], <<>>)

RECURSIVE bestVisit_last(_, _, _, _)
\* a running maximum that an equal score replaces: score >= bestScore
bestVisit_last(visits, k, bestScore, best) ==
    IF k > Len(visits) THEN best
    ELSE IF visits[k].score >= bestScore
    THEN bestVisit_last(visits, k + 1, visits[k].score, k)
    ELSE bestVisit_last(visits, k + 1, bestScore, best)

RECURSIVE bestVisit(_, _, _, _)
\* the running maximum: from the k-th visit on, with bestScore and the place
\* of bestResult among the visits (0 for null)
bestVisit(visits, k, bestScore, best) ==
    IF k > Len(visits) THEN best
    ELSE IF visits[k].score > bestScore
    THEN bestVisit(visits, k + 1, visits[k].score, k)
    ELSE bestVisit(visits, k + 1, bestScore, best)

\* the sections of the headers with a priority text, those longer than 50
prioritySections(content, headers) ==
    LET wanted == SelectSeq(headers, LAMBDA h : hasExploitSection(<<h.text>>))
        found == [k \in 1..Len(wanted) |-> extractSection(content, wanted[k].text)]
    IN  SelectSeq(found, LAMBDA s : s # None /\ Len(s) > MinSectionLength)

\* without a priority section, the section of the second header
fallbackSections(content, headers) ==
    IF Len(headers) > 1
    THEN SelectSeq(<<extractSection(content, headers[2].text)>>,
                   LAMBDA s : s # None /\ Len(s) > 0)
    ELSE <<>>

sectionsOr(priority, content, headers) ==
    IF Len(priority) > 0 THEN priority ELSE fallbackSections(content, headers)

extractedSections(content, headers) ==
    Only({sectionsOr(priority, content, headers) :
            priority \in {prioritySections(content, headers)}})

sectionsText(extracted) ==
    IF Len(extracted) > 0
    THEN JoinWith(extracted, <<"\n", "\n", "-", "-", "-", "\n", "\n">>)
    ELSE <<"No exploitation sections found. Use get_hacktricks_page for full content.">>

codeOutput(codeBlocks) ==
    IF Len(codeBlocks) > 0
    THEN JoinWith([k \in 1..Len(Take(codeBlocks, MaxCodeBlocks)) |->
                      cheatsheetBlock(codeBlocks[k])], <<"\n", "\n">>)
    ELSE <<"No code blocks found.">>

\* what quickLookup gives: [kind, message, page, title, sections, codeBlocks,
\* execs, reads, lookup]
lookupEnds(kind, message, page, found, execs, reads, trail) ==
    [kind |-> kind, message |-> message, page |-> page,
     title |-> found.title, sections |-> found.sections, codeBlocks |-> found.codeBlocks,
     execs |-> execs, reads |-> reads, lookup |-> trail]

NothingFound == [title |-> <<>>, sections |-> <<>>, codeBlocks |-> <<>>, extracted |-> <<>>]

foundIn(content) ==
    Only({[title |-> extractTitle(content),
           sections |-> sectionsText(extracted),
           codeBlocks |-> Only({codeOutput(blocks) : blocks \in {extractCodeBlocks(content)}}),
           extracted |-> extracted]
          : extracted \in {Only({extractedSections(content, headers) :
                                    headers \in {extractHeaders(content)}})}})

\* the page of bestResult is read and taken apart
lookupPage(file, page, execs, reads, trail) ==
    IF page.kind = "error"
    THEN lookupEnds("error", page.message, file, NothingFound, execs, reads \o page.reads, trail)
    ELSE Only({lookupEnds("ok", <<>>, file, found, execs, reads \o page.reads,
                          [trail EXCEPT !.sections = found.extracted]) :
                 found \in {foundIn(page.content)}})

noResults(topic) ==
    <<"No results found for: \"">> \o topic
    \o <<"\". Try a different term or specify a category.">>

\* quickLookup once the searches are done and the candidates scored
lookupBest(d, topic, visits, best, execs, reads, trail) ==
    IF best = 0
    THEN lookupEnds("error", noResults(topic), None, NothingFound, execs, reads, trail)
    ELSE Only({lookupPage(visits[best].file, page, execs, reads,
                          [trail EXCEPT !.best = visits[best].file]) :
                 page \in {getPage(d, visits[best].file)}})

lookupScored(d, topic, terms, answers, searches, visits) ==
    lookupBest(d, topic, visits, Only({bestVisit(visits, 1, 0, 0)}),
               JoinWith([k \in 1..Len(searches) |-> searches[k].execs], <<>>),
               JoinWith([k \in 1..Len(searches) |-> searches[k].reads], <<>>),
               [terms |-> terms, answers |-> answers, visits |-> visits, best |-> None,
                sections |-> <<>>])

lookupSearched(d, topic, terms, answers, searches) ==
    Only({lookupScored(d, topic, terms, answers, searches, visits) :
            visits \in {visitsOf(searches, terms, toLowerCase(topic))}})

lookupTerms(d, topic, category, answers, terms) ==
    Only({lookupSearched(d, topic, terms, answers, searches) :
            searches \in {searchesOf(d, terms, category, answers)}})

\* the spread of a value that cannot be iterated
NotIterable == <<"TypeError: SEARCH_ALIASES[topicLower] is not iterable">>

\* quickLookup(topic, category) on disk d, the engine answering the search for
\* the k-th term with answers[k]
quickLookup(d, topic, category, answers) ==
    IF ~searchTerms(topic).ok
    THEN lookupEnds("error", NotIterable, None, NothingFound, <<>>, <<>>,
                    [terms |-> <<>>, answers |-> <<>>, visits |-> <<>>, best |-> None,
                     sections |-> <<>>])
    ELSE Only({lookupTerms(d, topic, category, answers, terms) :
                 terms \in {searchTerms(topic).terms}})

(***************************************************************************)
(* The environment: the corpus on disk and the search engine.              *)
(***************************************************************************)
\* the lines of the corpus files, as the engine sees them
LinesA ==
    << <<"#", " ", "I", "n", "t", "r", "o">>,
       <<>>,
       <<"a", "l", "p", "h", "a">>,
       <<>>,
       <<"a", "l", "p", "h", "a", " ", "o", "n", "e">>,
       <<>>,
       <<"#", "#", " ", "D", "e", "t", "a", "i", "l", "s">>,
       <<>>,
       <<"a", "l", "p", "h", "a", " ", "t", "w", "o">>,
       <<"#", " ", " ">>,
       <<"a", "l", "p", "h", "a">> >>
LinesB == << Rep("b", MaxContent + 1), Rep("b", MaxContent), <<" ", "b", "b", " ">>, <<"b">> >>
LinesBig ==
    << <<"#", " ", "S", "1">>,
       <<"#", "#", " ", "S", "2">>,
       <<"#", "#", " ", "S", "1">>,
       <<"#", "#", " ", "S", "3">>,
       <<"#", "#", " ", "S", "4">>,
       <<"#", "#", " ", "S", "5">>,
       <<"#", "#", " ", "S", "6">> >>

MaxMatches == 2
BulkMatches == 60
MaxInFlight == 2
MaxTreeDepth == 5

(***************************************************************************)
(* The Category Tree Builder: readdir, listDirectoryTree, listCategories.   *)
(***************************************************************************)
\* a symbolic link: neither a directory nor a file to the directory reader
Link(target) == [type |-> "link", content |-> target]

\* Dirent.isDirectory()
entryIsDirectory(entry) == entry.kind = "dir"

\* the position of the first difference of two strings, 0 when one is a prefix of the other
firstDifference(a, b) ==
    LET shorter == IF Len(a) < Len(b) THEN Len(a) ELSE Len(b)
        differing == {i \in 1..shorter : a[i] # b[i]}
    IN  IF differing = {} THEN 0 ELSE CHOOSE i \in differing : \A j \in differing : i <= j

\* the order of two strings under an order of their characters: -1, 0 or 1
compareUnder(a, b, alphabet) ==
    LET at == firstDifference(a, b)
        rank(c) == CHOOSE k \in 1..Len(alphabet) : alphabet[k] = c
    IN  IF at = 0
        THEN (IF Len(a) < Len(b) THEN -1 ELSE IF Len(a) > Len(b) THEN 1 ELSE 0)
        ELSE IF rank(a[at]) < rank(b[at]) THEN -1 ELSE 1

\* the characters of entry names by UTF-16 code unit
CodeUnits == <<".">> \o UpperLetters \o LowerLetters

\* the default order of Array.prototype.sort(): by code unit
codeUnitCompare(a, b) == compareUnder(a, b, CodeUnits)

\* a.localeCompare(b): by letter first, a lower-case letter before its capital
\* where the letters agree
localeCompare(a, b) ==
    LET primary == compareUnder(toLowerCase(a), toLowerCase(b), CodeUnits)
    IN  IF primary # 0 THEN primary ELSE -codeUnitCompare(a, b)

\* Array.prototype.sort(compare): stable, by a comparison of two elements
sortedBy(seq, compare(_, _)) ==
    LET place(i) ==
            Cardinality({j \in 1..Len(seq) :
                            \/ compare(seq[j], seq[i]) < 0
                            \/ compare(seq[j], seq[i]) = 0 /\ j < i}) + 1
    IN  [k \in 1..Len(seq) |-> seq[CHOOSE i \in 1..Len(seq) : place(i) = k]]

\* a set of names in the order of their code units
inCodeUnitOrder(names) ==
    [k \in 1..Cardinality(names) |->
        CHOOSE n \in names :
            Cardinality({o \in names : codeUnitCompare(o, n) < 0}) = k - 1]

Reverse(seq) == [i \in 1..Len(seq) |-> seq[Len(seq) + 1 - i]]

\* readdir(dirPath, { withFileTypes: true }) on a disk d: the entries of the directory
\* in the order the system hands them out (here by name, forwards or backwards), or the
\* code of the error thrown
readdir(d, dirPath, backwards) ==
    LET key == Bare(dirPath)
        prefix == IF key = <<"/">> THEN key ELSE key \o <<"/">>
        nameOf(loc) == SubSeq(loc, Len(prefix) + 1, Len(loc))
        below == {loc \in DOMAIN d :
                    /\ StartsWith(loc, prefix)
                    /\ Len(loc) > Len(prefix)
                    /\ ~Includes(nameOf(loc), <<"/">>)}
        names == inCodeUnitOrder({nameOf(loc) : loc \in below})
        handed == IF backwards THEN Reverse(names) ELSE names
    IN  IF key \notin DOMAIN d THEN [code |-> "ENOENT", entries |-> <<>>]
        ELSE IF d[key].type # "dir" THEN [code |-> "ENOTDIR", entries |-> <<>>]
        ELSE [code |-> "OK",
              entries |-> [i \in 1..Len(handed) |->
                              [name |-> handed[i], kind |-> d[prefix \o handed[i]].type]]]

\* the default of the maxDepth parameter
DefaultMaxDepth == 3

\* the test that ends the recursion, without the test
depthExceeded_never(depth, maxDepth) == FALSE

\* if (depth > maxDepth) return [];
depthExceeded(depth, maxDepth) == depth > maxDepth

\* the depth handed to the recursive call, never advanced
nextDepth_same(depth) == depth

\* the depth handed to the recursive call: depth + 1
nextDepth(depth) == depth + 1

\* the order of two nodes: a directory before a file, then by name
nodeCompare(a, b) ==
    IF a.type # b.type THEN (IF a.type = "directory" THEN -1 ELSE 1)
    ELSE localeCompare(a.name, b.name)

\* the tree returned as the loop left it
treeOrder_asRead(tree) == tree

\* return tree.sort(...)
treeOrder(tree) == sortedBy(tree, nodeCompare)

\* entry.name.startsWith(".") || entry.name === "images"
skipped(name) == StartsWith(name, <<".">>) \/ name = <<"i", "m", "a", "g", "e", "s">>

\* one call of listDirectoryTree in the log of a listing
TreeCall(dirPath, depth, read) == [dirPath |-> dirPath, depth |-> depth, read |-> read]

DirectoryNode(name, path, children) ==
    [name |-> name, path |-> path, type |-> "directory", children |-> children]

\* a directory pushed only when it has children
pushDirectory_dropEmpty(tree, name, path, children) ==
    IF Len(children) = 0 THEN tree ELSE Append(tree, DirectoryNode(name, path, children))

\* tree.push({ ..., type: "directory", children: children.length > 0 ? children : undefined })
pushDirectory(tree, name, path, children) ==
    Append(tree, DirectoryNode(name, path, children))
FileNode(name, path) == [name |-> name, path |-> path, type |-> "file", children |-> <<>>]

\* listDirectoryTree: the sorted tree of a directory, with the calls it made; a node's
\* children are the empty sequence where the code leaves them undefined
RECURSIVE listDirectoryTree(_, _, _, _, _, _)
RECURSIVE walkEntries(_, _, _, _, _, _, _, _, _)

\* the loop over the entries of one directory, from entry k on
walkEntries(d, dirPath, basePath, depth, maxDepth, backwards, entries, k, done) ==
    IF k > Len(entries) THEN done
    ELSE LET entry == entries[k]
             fullPath == join(<<dirPath, entry.name>>)
             relativePath == ReplaceFirst(fullPath, basePath \o <<"/">>, <<>>)
             next(tree, calls) ==
                walkEntries(d, dirPath, basePath, depth, maxDepth, backwards, entries, k + 1,
                            [code |-> "OK", tree |-> tree, calls |-> calls])
         IN  IF skipped(entry.name) THEN next(done.tree, done.calls)
             ELSE IF entryIsDirectory(entry)
             THEN Only({IF sub.code # "OK"
                        THEN [code |-> sub.code, tree |-> <<>>,
                              calls |-> done.calls \o sub.calls]
                        ELSE next(pushDirectory(done.tree, entry.name, relativePath, sub.tree),
                                  done.calls \o sub.calls)
                        : sub \in {listDirectoryTree(d, fullPath, basePath, nextDepth(depth),
                                                     maxDepth, backwards)}})
             ELSE IF EndsWith(entry.name, <<".", "m", "d">>)
             THEN next(Append(done.tree, FileNode(entry.name, relativePath)), done.calls)
             ELSE next(done.tree, done.calls)

listDirectoryTree(d, dirPath, basePath, depth, maxDepth, backwards) ==
    IF depthExceeded(depth, maxDepth)
    THEN [code |-> "OK", tree |-> <<>>, calls |-> <<TreeCall(dirPath, depth, FALSE)>>]
    ELSE Only({IF listed.code # "OK"
               THEN [code |-> listed.code, tree |-> <<>>,
                     calls |-> <<TreeCall(dirPath, depth, TRUE)>>]
               ELSE Only({[code |-> walked.code,
                           tree |-> IF walked.code = "OK" THEN treeOrder(walked.tree)
                                    ELSE <<>>,
                           calls |-> walked.calls]
                          : walked \in {walkEntries(d, dirPath, basePath, depth, maxDepth,
                                                    backwards, listed.entries, 1,
                                                    [code |-> "OK", tree |-> <<>>,
                                                     calls |-> <<TreeCall(dirPath, depth,
                                                                          TRUE)>>])}})
               : listed \in {readdir(d, dirPath, backwards)}})

\* entry.isDirectory() && !entry.name.startsWith(".") && entry.name !== "images"
categoryEntry(entry) == entryIsDirectory(entry) /\ ~skipped(entry.name)

\* listCategories: the tree of a category, or the names of the categories
listCategories(d, category, backwards) ==
    LET srcPath == join(<<HACKTRICKS_PATH, Src>>)
        failed(code, calls) ==
            [kind |-> "error", message |-> <<"Failed to list categories: ", code>>,
             tree |-> <<>>, categories |-> <<>>, calls |-> calls]
    IN  IF category # None /\ Len(category) > 0
        THEN Only({IF listed.code # "OK" THEN failed(listed.code, listed.calls)
                   ELSE [kind |-> "ok", message |-> <<>>, tree |-> listed.tree,
                         categories |-> <<>>, calls |-> listed.calls]
                   : listed \in {listDirectoryTree(d, join(<<srcPath, category>>),
                                                   HACKTRICKS_PATH, 0, DefaultMaxDepth,
                                                   backwards)}})
        ELSE Only({IF entries.code # "OK" THEN failed(entries.code, <<>>)
                   ELSE [kind |-> "ok", message |-> <<>>, tree |-> <<>>,
                         categories |->
                            sortedBy([i \in 1..Len(SelectSeq(entries.entries, categoryEntry)) |->
                                         SelectSeq(entries.entries, categoryEntry)[i].name], codeUnitCompare),
                         calls |-> <<>>]
                   : entries \in {readdir(d, srcPath, backwards)}})

\* formatTree: one line per node, its children indented below it (the two icons and the
\* arrow are written <folder>, <page> and <arrow>)
RECURSIVE formatTree(_, _)
formatTree(items, indent) ==
    LET line(item) ==
            indent \o <<IF item.type = "directory" THEN "<folder>" ELSE "<page>", " ">>
            \o item.name
            \o (IF item.type = "file" THEN <<" <arrow> ">> \o item.path ELSE <<>>)
            \o (IF Len(item.children) > 0
                THEN <<"\n">> \o formatTree(item.children, indent \o <<" ", " ">>)
                ELSE <<>>)
    IN  JoinWith([i \in 1..Len(items) |-> line(items[i])], <<"\n">>)

FileA == <<"s", "r", "c", "/", "a", ".", "m", "d">>
FileB == <<"s", "r", "c", "/", "b", ".", "m", "d">>
FileBig == <<"s", "r", "c", "/", "b", "i", "g", ".", "m", "d">>
\* a markdown file that is removed between the search and the read of it
FileOld == <<"s", "r", "c", "/", "o", "l", "d", ".", "m", "a", "r", "k", "d", "o", "w", "n">>

Text(lines) == JoinWith(lines, <<"\n">>)
At(file) == HACKTRICKS_PATH \o <<"/">> \o file

\* a page whose name holds two dots in a row, and a page of the server's own directory,
\* beside the corpus root
FileDots == <<"s", "r", "c", "/", "a", ".", ".", "m", "d">>
OutsidePage == <<"/", "a", "p", "p", "/", "R", "E", "A", "D", "M", "E", ".", "m", "d">>

\* the disk, with src/a.md readable or not
Disk(readable) ==
    LET entry(loc) ==
            IF loc = At(FileA) THEN (IF readable THEN File(Text(LinesA)) ELSE Denied)
            ELSE IF loc = At(FileB) THEN File(Text(LinesB))
            ELSE IF loc = At(FileBig) THEN File(Text(LinesBig))
            ELSE IF loc = At(<<"a">>) THEN File(Text(LinesBig))
            ELSE IF loc = <<"/", "e", "t", "c", "/", "p", "a", "s", "s", "w", "d">>
            THEN File(<<"r", "o", "o", "t">>)
            ELSE IF loc = <<"/", "a", "p", "p", "/", "h", "a", "c", "k", "t", "r", "i", "c",
                            "k", "s", "x">>
            THEN File(<<"x">>)
            ELSE IF loc \in {At(FileDots), OutsidePage} THEN File(Text(LinesB))
            ELSE Directory
    IN  [loc \in {At(FileA), At(FileB), At(FileBig), At(<<"a">>), HACKTRICKS_PATH,
                  At(FileDots), OutsidePage,
                  At(Src), <<"/">>, <<"/", "a", "p", "p">>, <<"/", "e", "t", "c">>,
                  <<"/", "e", "t", "c", "/", "p", "a", "s", "s", "w", "d">>,
                  <<"/", "a", "p", "p", "/", "h", "a", "c", "k", "t", "r", "i", "c",
                    "k", "s", "x">>}
         |-> entry(loc)]

Corpora == {Disk(TRUE), Disk(FALSE)}

\* the decimal digits of a line number below 100
ToDigits(n) == IF n < 10 THEN <<Digits[n + 1]>> ELSE <<Digits[(n \div 10) + 1], Digits[(n % 10) + 1]>>

\* one line of engine output: path:line:text
OutLine(file, line, text) == At(file) \o <<":">> \o ToDigits(line) \o <<":">> \o text

\* the matches the engine may report, each a file and a line of it
Match(file, line, text) == [file |-> file, line |-> line, text |-> text]
Matchable ==
    {Match(FileA, n, LinesA[n]) : n \in {2, 5, 9, 11}}
    \cup {Match(FileB, n, LinesB[n]) : n \in {1, 2, 3}}
    \cup {Match(FileOld, 1, <<"o", "l", "d">>)}

\* the engine prints the matches of a file together and in line order
Printable(ms) ==
    /\ \A i, j \in 1..Len(ms) : i < j /\ ms[i].file = ms[j].file =>
          /\ ms[i].line < ms[j].line
          /\ \A k \in i..j : ms[k].file = ms[i].file

Stdout(ms) == JoinWith([k \in 1..Len(ms) |-> OutLine(ms[k].file, ms[k].line, ms[k].text)
                                              \o <<"\n">>], <<>>)

PoolOutputs == {Stdout(ms) : ms \in {m \in SeqsUpTo(Matchable, MaxOutLines) : Printable(m)}}

\* the first k lines of src/big.md match
BigOutputs ==
    {Stdout([n \in 1..k |-> Match(FileBig, n, LinesBig[n])]) : k \in 1..Len(LinesBig)}

\* every line of src/b.md matches
WholeB == Stdout([n \in 1..Len(LinesB) |-> Match(FileB, n, LinesB[n])])

\* one match in each of BulkFiles files src/f01.md, src/f02.md, ...
BulkFile(n) == Src \o <<"/", "f">> \o
               <<Digits[(n \div 10) + 1], Digits[(n % 10) + 1]>> \o <<".", "m", "d">>
BulkOutput == Stdout([n \in 1..BulkFiles |-> Match(BulkFile(n), 1, <<"x">>)])

Diagnostic == <<"rg: regex parse error">>
BasicAnswers ==
    {Answer("1", <<>>, <<"Command failed">>),
     Answer("0", Stdout(<<Match(FileA, 5, LinesA[5])>>), <<>>)}
EngineAnswers ==
    BasicAnswers
    \cup {Answer("0", out, <<>>) : out \in PoolOutputs \cup BigOutputs \cup {WholeB, BulkOutput}}
    \cup {Answer("2", <<>>, Diagnostic),
          Answer("2", Stdout(<<Match(FileB, 3, LinesB[3])>>), Diagnostic),
          Answer("ENOENT", <<>>, <<"spawn rg ENOENT">>),
          Answer("null", <<>>, <<"Command failed">>),
          Answer("ERR_CHILD_PROCESS_STDIO_MAXBUFFER",
                 Stdout(<<Match(FileA, 5, LinesA[5])>>), <<"stdout maxBuffer length exceeded">>)}

\* the corpus of the quick lookups: the main page of a topic folder, a page with
\* a short attack section, a page with a title alone, and a page that the
\* engine reports but that is gone when it is read
FileReadme == <<"s", "r", "c", "/", "x", "s", "s", "/", "R", "E", "A", "D", "M", "E", ".", "m", "d">>
FileWeb == <<"s", "r", "c", "/", "w", "e", "b", ".", "m", "d">>
FileNotes == <<"s", "r", "c", "/", "n", "o", "t", "e", "s", ".", "m", "d">>
FileTricks == <<"s", "r", "c", "/", "x", "s", "s", "-", "t", "r", "i", "c", "k", "s", ".", "m", "d">>
LinesReadme ==
    << <<"#", " ", "X", "S", "S">>,
       <<"i", "n", "t", "r", "o">>,
       <<"#", "#", " ", "P", "a", "y", "l", "o", "a", "d", "s">>,
       Rep("p", MinSectionLength),
       Fence \o <<"j", "s">>,
       <<"a", "l", "e", "r", "t", "(", "1", ")">>,
       Fence >>
LinesWeb == << <<"#", " ", "W", "e", "b">>, <<"x">>, <<"#", "#", " ", "A", "t", "t", "a", "c", "k">>, <<"y">> >>
LinesNotes == << <<"#", " ", "N", "o", "t", "e", "s">>, <<"n">> >>

LookupDisk ==
    [loc \in {At(FileReadme), At(FileWeb), At(FileNotes), HACKTRICKS_PATH, At(Src),
              At(<<"s", "r", "c", "/", "x", "s", "s">>)}
     |-> IF loc = At(FileReadme) THEN File(Text(LinesReadme))
         ELSE IF loc = At(FileWeb) THEN File(Text(LinesWeb))
         ELSE IF loc = At(FileNotes) THEN File(Text(LinesNotes))
         ELSE Directory]

\* the engine's answers to the search for one term
LookupOutputs ==
    {Stdout(<<Match(FileNotes, 2, LinesNotes[2])>>),
     Stdout(<<Match(FileWeb, 2, LinesWeb[2])>>),
     Stdout(<<Match(FileWeb, 2, LinesWeb[2]), Match(FileNotes, 2, LinesNotes[2])>>),
     Stdout(<<Match(FileNotes, 2, LinesNotes[2]), Match(FileWeb, 2, LinesWeb[2])>>),
     Stdout(<<Match(FileWeb, 4, LinesWeb[4])>>),
     Stdout(<<Match(FileReadme, 2, LinesReadme[2])>>),
     Stdout(<<Match(FileTricks, 1, <<"t">>), Match(FileNotes, 2, LinesNotes[2])>>)}
LookupAnswers ==
    {Answer("1", <<>>, <<"Command failed">>), Answer("2", <<>>, Diagnostic)}
    \cup {Answer("0", out, <<>>) : out \in LookupOutputs}

(***************************************************************************)
(* The requests.                                                           *)
(***************************************************************************)
PathChars == {"a", ".", "/", "\\", " "}
NotablePaths ==
    {<<".", ".", "/", ".", ".", "/", ".", ".", "/", "e", "t", "c", "/", "p", "a", "s", "s", "w", "d">>,
     <<"/", "e", "t", "c", "/", "p", "a", "s", "s", "w", "d">>,
     <<"s", "r", "c", "/", ".", ".", "/", ".", ".", "/", ".", ".">>,
     <<".", ".", "/", "h", "a", "c", "k", "t", "r", "i", "c", "k", "s", "x">>,
     <<"s", "r", "c", "/", "a", ".", "m", "d">>}
Paths == SeqsUpTo(PathChars, MaxPathLen) \cup NotablePaths \cup {None}

CategoryChars == {"a", ".", "/"}
NotableCategories ==
    {<<".", ".", "/", ".", ".">>,
     <<".", ".", "/", ".", ".", "/", "e", "t", "c">>}
Categories == SeqsUpTo(CategoryChars, MaxCategoryLen) \cup NotableCategories \cup {None}

QueryChars == {"a", " ", "\t", "-", ";"}
Queries == SeqsUpTo(QueryChars, MaxQueryLen) \cup {None}
PlainQuery == <<"a">>

\* the section argument
SectionNames ==
    {<<"a">>, <<"A">>, <<"b">>, <<"b", " ">>, <<"a", "b">>, <<"z">>, <<" ">>, <<"d", "e", "t", "a", "i", "l", "s">>}

\* the documents of the parser's check: up to MaxHeaderLines lines of headers
\* and text, up to MaxFenceLines lines of fences and code, and some more
HeaderLinePool ==
    {<<"#", " ", "A">>, <<"#", "#", " ", "a", "b">>, <<"#", "#", " ", "B", " ">>, <<"#", "#", "#", " ", "a">>,
     <<"#", " ">>, <<"x">>}
FenceLinePool == {Fence, Fence \o <<"a">>, Fence \o <<"+">>, <<"a">>}
NotableDocuments ==
    {<< <<"#", "#", "#", "#", "#", "#", " ", "f">>,
        <<"#", "#", "#", "#", "#", "#", "#", " ", "g">>,
        <<"#", "\t", "x">>,
        <<"#", "x">> >>,
     [n \in 1..20 |-> IF n = 1 THEN <<"#", " ", "A">>
                      ELSE IF n = 10 THEN <<"#", "#", " ", "a", "b">>
                      ELSE IF n = 20 THEN <<"#", "#", " ", "B">>
                      ELSE <<"x">>],
     << Fence \o <<"a">>, <<"x">>, Fence, <<>>, Fence, <<"y", " ">>, Fence \o <<"b">> >>}
Documents ==
    {Text(ls) : ls \in SeqsUpTo(HeaderLinePool, MaxHeaderLines)
                        \cup SeqsUpTo(FenceLinePool, MaxFenceLines)
                        \cup NotableDocuments}

\* a disk that holds one document
DocumentPath == <<"s", "r", "c", "/", "d", "o", "c", ".", "m", "d">>
DocumentDisk(content) ==
    [loc \in {HACKTRICKS_PATH, At(Src), At(DocumentPath)} |->
        IF loc = At(DocumentPath) THEN File(content) ELSE Directory]
DocumentDisks == {DocumentDisk(content) : content \in Documents}

\* the cases of a section request: every path with one name, and every name
\* with the paths of two files and with no path
SectionCases ==
    [path : Paths, section : {<<"d">>}]
    \cup [path : {FileA, FileBig, None}, section : SectionNames \cup {None, <<>>}]
DocumentSections == [path : {DocumentPath}, section : SectionNames]

\* the target lines of findNearestSection: around the documents' lines, and
\* line 15 of the long document
TargetLines == 0..(MaxHeaderLines + 1) \cup {15}

\* the topic argument: table keys in either case, inherited property names,
\* other words, blank and absent topics
Topics ==
    {<<"x", "s", "s">>, <<"X", "S", "S">>, <<"s", "q", "l", "i">>, <<"n", "o", "t", "e", "s">>, <<"w", "e", "b">>, <<"c", "o", "n", "s", "t", "r", "u", "c", "t", "o", "r">>, <<"_", "_", "P", "r", "o", "t", "o", "_", "_">>,
     <<" ">>, <<>>, None}
LookupCases ==
    [topic : Topics, category : {None}]
    \cup [topic : {<<"n", "o", "t", "e", "s">>}, category : {DotDot}]
\* the quick lookups against the corpus of the searches
PlainLookups == [topic : {<<"a">>, <<"s", "q", "l", "i">>, <<" ">>, <<>>, None}, category : {None}]

\* the limit argument: absent, or a number given in halves
Absent == [given |-> FALSE, halves |-> 0]
Given(halves) == [given |-> TRUE, halves |-> halves]
LimitArgs == {Absent} \cup {Given(h) : h \in {0, -2, 1, 2, 3, 4, 2 * MaxLimit + 2}}

\* the engine finds the page with two dots in its name; searching the directory above
\* the corpus root, it finds the server's own README.md
DotsAnswer == Answer("0", Stdout(<<Match(FileDots, 1, LinesB[1])>>), <<>>)
OutsideAnswer == Answer("0", OutsidePage \o <<":", "1", ":">> \o LinesB[1] \o <<"\n">>, <<>>)

\* the cases of a search: the arguments vary against the engine's basic
\* answers, and the limit and the engine's answer vary for a plain query
SearchCases ==
    [query : Queries, category : Categories, limit : {Absent}, answer : BasicAnswers]
    \cup [query : {PlainQuery}, category : {None}, limit : LimitArgs, answer : EngineAnswers]
    \cup [query : {PlainQuery}, category : {None}, limit : {Absent}, answer : {DotsAnswer}]
    \cup [query : {PlainQuery}, category : {<<".", ".", "/", ".", ".">>}, limit : {Absent},
          answer : {OutsideAnswer}]

(***************************************************************************)
(* The corpus of the ranking: for the topic "zip", a page that earns only   *)
(* the title bonus, one only the README bonus, one only the path bonus, one *)
(* only the section bonus and one no bonus; the matching lines say "zip".   *)
(***************************************************************************)
Zip == <<"z", "i", "p">>
FileTitle == <<"s", "r", "c", "/", "t", ".", "m", "d">>
FileIndex == <<"s", "r", "c", "/", "a", "z", "i", "p", "/", "R", "E", "A", "D", "M", "E", ".", "m", "d">>
FileFolder == <<"s", "r", "c", "/", "z", "i", "p", "-", "a", ".", "m", "d">>
FileSection == <<"s", "r", "c", "/", "s", ".", "m", "d">>
FilePlain == <<"s", "r", "c", "/", "n", ".", "m", "d">>

LinesTitle ==
    << <<"#", " ", "Z", "i", "p">>, Zip, Zip,
       <<"#", "#", " ", "A", "t", "t", "a", "c", "k">>, Rep("a", MinSectionLength),
       <<"#", "#", " ", "B", "y", "p", "a", "s", "s">>, Rep("b", MinSectionLength),
       <<"#", "#", " ", "N", "o", "t", "e", "s">>, <<"n">> >>
\* a page with a header whose text holds the text of a later header
LinesIndex ==
    << <<"#", " ", "I", "n", "d", "e", "x">>, Zip, Zip,
       <<"#", "#", " ", "E", "x", "p", "l", "o", "i", "t", " ", "p", "a", "y", "l", "o", "a", "d", "s">>,
       Rep("p", MinSectionLength),
       <<"#", "#", " ", "P", "a", "y", "l", "o", "a", "d", "s">>,
       Rep("q", MinSectionLength) >>
LinesFolder == << <<"#", " ", "O", "t", "h", "e", "r">>, Zip, Zip >>
LinesSection ==
    << <<"#", " ", "O", "t", "h", "e", "r">>, <<"#", "#", " ", "E", "x", "p", "l", "o", "i", "t">> >>
    \o [i \in 1..(BulkMatches + 1) |-> Zip]
LinesPlain == << <<"#", " ", "P", "l", "a", "i", "n">> >> \o [i \in 1..(BulkMatches + 1) |-> Zip]

RankingFiles == <<FileTitle, FileIndex, FileFolder, FileSection, FilePlain>>
RankingLines == <<LinesTitle, LinesIndex, LinesFolder, LinesSection, LinesPlain>>

RankingDisk ==
    [loc \in {At(RankingFiles[c]) : c \in 1..Len(RankingFiles)}
             \cup {HACKTRICKS_PATH, At(Src), At(<<"s", "r", "c", "/", "a", "z", "i", "p">>)}
     |-> IF \E c \in 1..Len(RankingFiles) : loc = At(RankingFiles[c])
         THEN File(Text(RankingLines[CHOOSE c \in 1..Len(RankingFiles) :
                                        loc = At(RankingFiles[c])]))
         ELSE Directory]

\* the first n matching lines of the c-th page, as the engine prints them
matchesOf(c, n) ==
    LET hits == Positions(RankingLines[c], LAMBDA i : RankingLines[c][i] = Zip)
    IN  [k \in 1..n |-> Match(RankingFiles[c], hits[k], Zip)]

\* the engine's answers: one page or two with a few matches each, and outputs of more
\* lines than the raw limit keeps
RankingOutputs ==
    {Stdout(matchesOf(c, n)) : c \in 1..Len(RankingFiles), n \in 1..MaxMatches}
    \cup {Stdout(matchesOf(p[1], p[2]) \o matchesOf(p[3], p[4])) :
            p \in {q \in (1..Len(RankingFiles)) \X (1..MaxMatches)
                         \X (1..Len(RankingFiles)) \X (1..MaxMatches) : q[1] # q[3]}}
    \cup {Stdout(matchesOf(c, BulkMatches)) : c \in {4, 5}}
    \cup {Stdout(matchesOf(c1, 1) \o matchesOf(c2, BulkMatches)) :
            c1 \in {1, 2, 3}, c2 \in {4, 5}}
    \cup {Stdout(matchesOf(5, BulkMatches) \o matchesOf(3, 1))}

RankingAnswers ==
    {Answer("1", <<>>, <<"Command failed">>)}
    \cup {Answer("0", out, <<>>) : out \in RankingOutputs}

RankingCases == [topic : {Zip, <<"Z", "I", "P">>}, category : {None}]

(***************************************************************************)
(* The disks of the Category Tree Builder: the category src/c holds a chain *)
(* of directories d/d/..., with a page at its end or none, and beside it    *)
(* hidden and asset entries, other pages and directories, and links.        *)
(***************************************************************************)
CategoryC == <<"c">>
AtC(rest) == At(Src \o <<"/">> \o CategoryC \o rest)
Chain(n) == JoinWith([i \in 1..n |-> <<"/", "d">>], <<>>)
PageText == File(<<"#", " ", "t">>)

HiddenEntries ==
    [loc \in {AtC(<<"/", ".", "g", "i", "t">>),
              AtC(<<"/", ".", "g", "i", "t", "/", "a", ".", "m", "d">>),
              AtC(<<"/", ".", "b", ".", "m", "d">>),
              AtC(<<"/", "i", "m", "a", "g", "e", "s">>),
              AtC(<<"/", "i", "m", "a", "g", "e", "s", "/", "a", ".", "m", "d">>),
              AtC(<<"/", "x", ".", "t", "x", "t">>)}
     |-> IF loc \in {AtC(<<"/", ".", "g", "i", "t">>), AtC(<<"/", "i", "m", "a", "g", "e", "s">>)}
         THEN Directory ELSE PageText]

PlainEntries ==
    [loc \in {AtC(<<"/", "a", ".", "m", "d">>),
              AtC(<<"/", "B", ".", "m", "d">>),
              AtC(<<"/", "c", ".", "m", "d">>),
              AtC(<<"/", "e">>),
              AtC(<<"/", "a", "b">>),
              AtC(<<"/", "a", "b", "/", "z", ".", "m", "d">>),
              AtC(<<"/", "a", "b", "/", "y">>),
              AtC(<<"/", "a", "b", "/", "y", "/", "a", ".", "t", "x", "t">>)}
     |-> IF loc \in {AtC(<<"/", "e">>), AtC(<<"/", "a", "b">>), AtC(<<"/", "a", "b", "/", "y">>)}
         THEN Directory ELSE PageText]

\* links that close a cycle: one to the category itself, one named like a page
LinkEntries ==
    [loc \in {AtC(<<"/", "l">>), AtC(<<"/", "d", "/", "u", "p", ".", "m", "d">>)}
     |-> Link(AtC(<<>>))]

TreeDisk(n, leaf, extras) ==
    LET chain == [loc \in {AtC(Chain(i)) : i \in 0..n} |-> Directory]
        page == IF leaf THEN [loc \in {AtC(Chain(n) \o <<"/", "a", ".", "m", "d">>)} |-> PageText]
                ELSE <<>>
        around == [loc \in {<<"/">>, <<"/", "a", "p", "p">>, HACKTRICKS_PATH, At(Src),
                            At(Src \o <<"/", "b">>), At(Src \o <<"/", "B">>),
                            At(Src \o <<"/", ".", "g", "i", "t">>),
                            At(Src \o <<"/", "i", "m", "a", "g", "e", "s">>),
                            At(Src \o <<"/", "R", ".", "m", "d">>)}
                   |-> IF loc = At(Src \o <<"/", "R", ".", "m", "d">>) THEN PageText
                       ELSE Directory]
        hidden == IF "hidden" \in extras THEN HiddenEntries ELSE <<>>
        plain == IF "plain" \in extras THEN PlainEntries ELSE <<>>
        links == IF "links" \in extras /\ n > 0 THEN LinkEntries ELSE <<>>
    IN  around @@ chain @@ page @@ hidden @@ plain @@ links

TreeDisks ==
    {TreeDisk(n, leaf, extras) :
        n \in 0..MaxTreeDepth, leaf \in BOOLEAN, extras \in SUBSET {"hidden", "plain", "links"}}

\* the categories asked for: src/c, none, the empty one, a directory below src/c, a
\* category that does not exist and a page
TreeCategories ==
    {CategoryC, None, <<>>, CategoryC \o <<"/", "d">>, <<"n">>, <<"R", ".", "m", "d">>}

NoRequest == [name |-> "", query |-> None, category |-> None, limit |-> Absent, path |-> None,
              section |-> None, topic |-> None]
NoListing == [calls |-> <<>>, tree |-> <<>>, categories |-> <<>>]
NoLookup ==
    [terms |-> <<>>, answers |-> <<>>, visits |-> <<>>, best |-> None, sections |-> <<>>]
NoRaw == [kind |-> "none", records |-> <<>>, message |-> <<>>, execs |-> <<>>]
NoResponse == [kind |-> "none", message |-> <<>>, content |-> <<>>, results |-> <<>>]

Init ==
    /\ fs \in Corpora
    /\ pc = "idle"
    /\ request = NoRequest
    /\ engine = NotInvoked
    /\ execLog = <<>>
    /\ fsLog = <<>>
    /\ raw = NoRaw
    /\ groups = <<>>
    /\ parsed = NoParsed
    /\ lookup = NoLookup
    /\ listing = NoListing
    /\ inflight = <<>>
    /\ response = NoResponse

(***************************************************************************)
(* The handlers of the CallToolRequestSchema dispatcher.                   *)
(***************************************************************************)
\* name === "search_hacktricks": the results stand for the text that lists them
search_hacktricks ==
    /\ pc = "idle"
    /\ \E c \in SearchCases :
        \E r \in {searchHackTricksGrouped(fs, c.query, c.category, limitOf(c.limit), c.answer)} :
            /\ request' = [NoRequest EXCEPT !.name = "search_hacktricks", !.query = c.query,
                                            !.category = c.category, !.limit = c.limit]
            /\ IF c.query = None \/ Len(c.query) = 0
               THEN /\ response' = [kind |-> "error", message |-> <<"Query parameter is required">>,
                                    content |-> <<>>, results |-> <<>>]
                    /\ engine' = NotInvoked
                    /\ execLog' = <<>>
                    /\ fsLog' = <<>>
                    /\ raw' = NoRaw
                    /\ groups' = <<>>
               ELSE /\ response' = [kind |-> r.kind, message |-> r.message,
                                    content |-> <<>>, results |-> r.results]
                    /\ engine' = IF r.execs = <<>> THEN NotInvoked ELSE c.answer
                    /\ execLog' = r.execs
                    /\ fsLog' = r.reads
                    /\ raw' = r.raw
                    /\ groups' = r.grouped
    /\ pc' = "replied"
    /\ UNCHANGED <<fs, parsed, lookup, listing, inflight>>

\* name === "get_hacktricks_page"
get_hacktricks_page ==
    /\ pc = "idle"
    /\ \E path \in Paths :
        \E r \in {getPage(fs, path)} :
            /\ request' = [NoRequest EXCEPT !.name = "get_hacktricks_page", !.path = path]
            /\ IF path = None \/ Len(path) = 0
               THEN /\ response' = [kind |-> "error", message |-> <<"Path parameter is required">>,
                                    content |-> <<>>, results |-> <<>>]
                    /\ fsLog' = <<>>
               ELSE /\ response' = [kind |-> r.kind, message |-> r.message,
                                    content |-> r.content, results |-> <<>>]
                    /\ fsLog' = r.reads
    /\ pc' = "replied"
    /\ UNCHANGED <<fs, engine, execLog, raw, groups, parsed, lookup, listing, inflight>>

\* the text of the outline handler's answer (the light-bulb sign is written <bulb>)
outlineText(path, outline) ==
    <<"Outline of ">> \o path \o <<":", "\n", "\n">> \o outline
    \o <<"\n", "\n", "<bulb> Use get_hacktricks_section(path, \"section name\") to read a specific section.">>

\* the text of the cheatsheet handler's answer
cheatsheetText(path, cheatsheet) ==
    <<"Code blocks from ">> \o path \o <<":", "\n", "\n">> \o cheatsheet

\* what a handler answers from the outcome r of its operation
answered(r, text) ==
    [kind |-> r.kind, message |-> r.message,
     content |-> IF r.kind = "ok" THEN text ELSE <<>>, results |-> <<>>]

\* name === "get_hacktricks_outline", for a path among the given ones
outlineFor(paths) ==
    /\ pc = "idle"
    /\ \E path \in paths :
        \E r \in {getPageOutline(fs, path)} :
            /\ request' = [NoRequest EXCEPT !.name = "get_hacktricks_outline", !.path = path]
            /\ IF path = None \/ Len(path) = 0
               THEN /\ response' = [kind |-> "error", message |-> <<"Path parameter is required">>,
                                    content |-> <<>>, results |-> <<>>]
                    /\ fsLog' = <<>>
                    /\ parsed' = NoParsed
               ELSE /\ response' = answered(r, outlineText(path, r.content))
                    /\ fsLog' = r.reads
                    /\ parsed' = r.parsed
    /\ pc' = "replied"
    /\ UNCHANGED <<fs, engine, execLog, raw, groups, lookup, listing, inflight>>

get_hacktricks_outline == outlineFor(Paths)

\* name === "get_hacktricks_section", for a path and a section among the given ones
sectionFor(cases) ==
    /\ pc = "idle"
    /\ \E c \in cases :
        \E r \in {getPageSection(fs, c.path, c.section)} :
            /\ request' = [NoRequest EXCEPT !.name = "get_hacktricks_section",
                                            !.path = c.path, !.section = c.section]
            /\ IF c.path = None \/ Len(c.path) = 0
               THEN /\ response' = [kind |-> "error", message |-> <<"Path parameter is required">>,
                                    content |-> <<>>, results |-> <<>>]
                    /\ fsLog' = <<>>
                    /\ parsed' = NoParsed
               ELSE IF c.section = None \/ Len(c.section) = 0
               THEN /\ response' = [kind |-> "error",
                                    message |-> <<"Section parameter is required">>,
                                    content |-> <<>>, results |-> <<>>]
                    /\ fsLog' = <<>>
                    /\ parsed' = NoParsed
               ELSE /\ response' = answered(r, r.content)
                    /\ fsLog' = r.reads
                    /\ parsed' = r.parsed
    /\ pc' = "replied"
    /\ UNCHANGED <<fs, engine, execLog, raw, groups, lookup, listing, inflight>>

get_hacktricks_section == sectionFor(SectionCases)

\* name === "get_hacktricks_cheatsheet", for a path among the given ones
cheatsheetFor(paths) ==
    /\ pc = "idle"
    /\ \E path \in paths :
        \E r \in {getPageCheatsheet(fs, path)} :
            /\ request' = [NoRequest EXCEPT !.name = "get_hacktricks_cheatsheet", !.path = path]
            /\ IF path = None \/ Len(path) = 0
               THEN /\ response' = [kind |-> "error", message |-> <<"Path parameter is required">>,
                                    content |-> <<>>, results |-> <<>>]
                    /\ fsLog' = <<>>
                    /\ parsed' = NoParsed
               ELSE /\ response' = answered(r, cheatsheetText(path, r.content))
                    /\ fsLog' = r.reads
                    /\ parsed' = r.parsed
    /\ pc' = "replied"
    /\ UNCHANGED <<fs, engine, execLog, raw, groups, lookup, listing, inflight>>

get_hacktricks_cheatsheet == cheatsheetFor(Paths)

Rule == Rep("<double line>", 60)
ThinRule == Rep("<line>", 60)

\* the text of the quick lookup handler's answer (the signs are written <zap>,
\* <page> and <bulb>)
lookupText(result) ==
    <<"<zap> Quick Lookup: ">> \o result.title \o <<"\n">>
    \o <<"<page> Page: ">> \o result.page \o <<"\n">>
    \o <<"\n">> \o Rule \o <<"\n">>
    \o <<"\n", "## Exploitation Info", "\n", "\n">>
    \o result.sections
    \o <<"\n", "\n">> \o Rule \o <<"\n">>
    \o <<"\n", "## Code/Payloads", "\n", "\n">>
    \o result.codeBlocks
    \o <<"\n", "\n">> \o ThinRule \o <<"\n">>
    \o <<"<bulb> Need more? Use get_hacktricks_page(\"">> \o result.page
    \o <<"\") for full content.">>

\* name === "hacktricks_quick_lookup", for a topic and a category among the
\* given cases, the engine answering each search with one of the given answers
lookupFor(cases, answersGiven) ==
    /\ pc = "idle"
    /\ \E c \in cases :
        \E answers \in [1..Len(searchTerms(c.topic).terms) -> answersGiven] :
            \E r \in {quickLookup(fs, c.topic, c.category, answers)} :
                /\ request' = [NoRequest EXCEPT !.name = "hacktricks_quick_lookup",
                                                !.topic = c.topic, !.category = c.category]
                /\ IF c.topic = None \/ Len(c.topic) = 0
                   THEN /\ response' = [kind |-> "error",
                                        message |-> <<"Topic parameter is required">>,
                                        content |-> <<>>, results |-> <<>>]
                        /\ execLog' = <<>>
                        /\ fsLog' = <<>>
                        /\ lookup' = NoLookup
                   ELSE /\ response' = answered(r, lookupText(r))
                        /\ execLog' = r.execs
                        /\ fsLog' = r.reads
                        /\ lookup' = r.lookup
    /\ pc' = "replied"
    /\ UNCHANGED <<fs, engine, raw, groups, parsed, listing, inflight>>

hacktricks_quick_lookup == lookupFor(PlainLookups, BasicAnswers)

\* the response is sent and the server waits for the next request
\* the text of a listing: the tree of a category, or the list of the categories
listingText(category, result) ==
    IF category # None /\ Len(category) > 0
    THEN <<"Contents of category: ">> \o category \o <<"\n", "\n">>
         \o formatTree(result.tree, <<>>)
    ELSE <<"Available HackTricks Categories (">> \o ToDigits(Len(result.categories))
         \o <<"):", "\n", "\n">>
         \o JoinWith([i \in 1..Len(result.categories) |-> <<"- ">> \o result.categories[i]],
                     <<"\n">>)
         \o <<"\n", "\n",
              "Tip: Use category parameter to see contents (e.g., category=\"pentesting-web\")">>

\* name === "list_hacktricks_categories", for a category among the given ones; the
\* system hands the entries of a directory out in an order of its own
listFor(categories) ==
    /\ pc = "idle"
    /\ \E category \in categories, backwards \in BOOLEAN :
        \E r \in {listCategories(fs, category, backwards)} :
            /\ request' = [NoRequest EXCEPT !.name = "list_hacktricks_categories",
                                            !.category = category]
            /\ listing' = [calls |-> r.calls, tree |-> r.tree, categories |-> r.categories]
            /\ response' = answered(r, listingText(category, r))
    /\ pc' = "replied"
    /\ UNCHANGED <<fs, engine, execLog, fsLog, raw, groups, parsed, lookup, inflight>>

list_hacktricks_categories == listFor(Categories)

Reply ==
    /\ pc = "replied"
    /\ pc' = "idle"
    /\ request' = NoRequest
    /\ engine' = NotInvoked
    /\ execLog' = <<>>
    /\ fsLog' = <<>>
    /\ raw' = NoRaw
    /\ groups' = <<>>
    /\ parsed' = NoParsed
    /\ lookup' = NoLookup
    /\ listing' = NoListing
    /\ response' = NoResponse
    /\ UNCHANGED <<fs, inflight>>

Next ==
    \/ search_hacktricks
    \/ get_hacktricks_page
    \/ get_hacktricks_outline
    \/ get_hacktricks_section
    \/ get_hacktricks_cheatsheet
    \/ hacktricks_quick_lookup
    \/ list_hacktricks_categories
    \/ Reply

Spec == Init /\ [][Next]_vars

(***************************************************************************)
(* The Markdown Structural Parser over a disk that holds one document: the *)
(* page operations on the document, and findNearestSection on its headers. *)
(***************************************************************************)
DocumentInit ==
    /\ fs \in DocumentDisks
    /\ pc = "idle"
    /\ request = NoRequest
    /\ engine = NotInvoked
    /\ execLog = <<>>
    /\ fsLog = <<>>
    /\ raw = NoRaw
    /\ groups = <<>>
    /\ parsed = NoParsed
    /\ lookup = NoLookup
    /\ listing = NoListing
    /\ inflight = <<>>
    /\ response = NoResponse

OutlineOfDocument == outlineFor({DocumentPath})
SectionOfDocument == sectionFor(DocumentSections)
CheatsheetOfDocument == cheatsheetFor({DocumentPath})

\* findNearestSection(extractHeaders(content), targetLine), as the Result
\* Aggregator calls it for a match at the target line
NearestInDocument ==
    /\ pc = "idle"
    /\ \E targetLine \in TargetLines :
        \E page \in {getPage(fs, DocumentPath)} :
            /\ request' = [NoRequest EXCEPT !.name = "findNearestSection",
                                            !.path = DocumentPath]
            /\ parsed' = [NoParsed EXCEPT
                              !.doc = page.content,
                              !.headers = extractHeaders(page.content),
                              !.targetLine = targetLine,
                              !.nearest = findNearestSection(extractHeaders(page.content),
                                                             targetLine)]
            /\ fsLog' = page.reads
            /\ response' = [kind |-> "ok", message |-> <<>>, content |-> <<>>,
                            results |-> <<>>]
    /\ pc' = "replied"
    /\ UNCHANGED <<fs, engine, execLog, raw, groups, lookup, listing, inflight>>

DocumentNext ==
    \/ OutlineOfDocument
    \/ SectionOfDocument
    \/ CheatsheetOfDocument
    \/ NearestInDocument
    \/ Reply

ParserSpec == DocumentInit /\ [][DocumentNext]_vars

(***************************************************************************)
(* The properties.                                                         *)
(***************************************************************************)
\* a search request, or a page request, has been handled
Searched == pc = "replied" /\ request.name = "search_hacktricks"
Paged == pc = "replied" /\ request.name = "get_hacktricks_page"

\* the raw records of one file, in their order
matchesIn(records, file) == SelectSeq(records, LAMBDA r : r.file = file)

\* C1: in every operation, every directory or file location handed to the
\* search engine or to the filesystem is the corpus root or a descendant of it.
C1_LocationsUnderRoot ==
    /\ \A i \in 1..Len(execLog) : UnderRoot(execLog[i][Len(execLog[i])])
    /\ \A i \in 1..Len(fsLog) : UnderRoot(fsLog[i])

InvalidPathMessages ==
    {<<"Invalid file path: directory traversal not allowed">>,
     <<"Invalid file path: must be within HackTricks directory">>}
EmptyPathMessages == {<<"File path cannot be empty">>, <<"Path parameter is required">>}
TraversalExamples ==
    {<<".", ".", "/", ".", ".", "/", ".", ".", "/", "e", "t", "c", "/", "p", "a", "s", "s", "w", "d">>,
     <<"/", "e", "t", "c", "/", "p", "a", "s", "s", "w", "d">>,
     <<"s", "r", "c", "/", ".", ".", "/", ".", ".", "/", ".", ".">>}
HasParentSegment(path) ==
    \E i \in 1..Len(Split(path, "/")) : Split(path, "/")[i] = DotDot

\* what the claim C2 asks of a path before it may be read
Allowed(path) ==
    /\ path # None
    /\ Len(Trim(path)) > 0
    /\ ~HasParentSegment(ReplaceAllChar(path, "\\", "/"))
    /\ ~StartsWith(path, <<"/">>)
    /\ UnderRoot(join(<<HACKTRICKS_PATH, ReplaceAllChar(path, "\\", "/")>>))

\* C2: getPage reads a file only if the path is non-empty after trimming, has
\* no parent-directory segment, does not begin with "/" and its joined
\* location lies under the corpus root; in every other case it fails with an
\* invalid-path or empty-path error and nothing is read.  The three traversal
\* examples are rejected as invalid paths without a read.
C2_ReadOnlyThroughGate ==
    Paged =>
        /\ fsLog # <<>> => Allowed(request.path)
        /\ ~Allowed(request.path) =>
              /\ fsLog = <<>>
              /\ response.kind = "error"
              /\ response.message \in InvalidPathMessages \cup EmptyPathMessages
        /\ request.path \in TraversalExamples =>
              /\ fsLog = <<>>
              /\ response.kind = "error"
              /\ response.message \in InvalidPathMessages

\* "src/../../.." has been asked for and rejected
C2_Witness ==
    /\ Paged
    /\ request.path = <<"s", "r", "c", "/", ".", ".", "/", ".", ".", "/", ".", ".">>
    /\ response.message \in InvalidPathMessages
    /\ fsLog = <<>>

\* C3: for every non-empty query, the engine is invoked with the query as one
\* discrete, unmodified argument that the engine takes as the search pattern,
\* and never reads as an option or as a search directory.
C3_QueryIsThePattern ==
    Searched =>
        \A i \in 1..Len(execLog) :
            /\ Len(SelectSeq(execLog[i], LAMBDA arg : arg = request.query)) = 1
            /\ patternRead(positionalsRead(execLog[i])) = request.query
            /\ \A k \in 1..Len(optionsRead(execLog[i])) :
                  optionsRead(execLog[i])[k] # request.query
            /\ \A k \in 1..Len(pathsRead(positionalsRead(execLog[i]))) :
                  pathsRead(positionalsRead(execLog[i]))[k] # request.query

\* a query of nothing but whitespace (the empty query among them)
Blank(query) == \A i \in 1..Len(query) : query[i] \in WhiteSpace

\* C4: for every query that is empty or only whitespace the search fails and
\* the search engine is never invoked.
C4_BlankQueryFails ==
    (Searched /\ Blank(request.query)) =>
        /\ response.kind = "error"
        /\ engine = NotInvoked
        /\ execLog = <<>>

\* a query of a space and a tab has been answered
C4_Witness ==
    /\ Searched
    /\ request.query = <<" ", "\t">>
    /\ response.kind = "error"

\* C5: the adapter maps a normal exit to the parsed records, exit status 1 to
\* no records and no error, exit status 2 to an invalid-pattern error with the
\* engine's diagnostic, and every other failure to a search-failure error; no
\* failure is returned as a success.
C5_OutcomeMapping ==
    (Searched /\ engine # NotInvoked) =>
        /\ engine.code = "0" =>
              /\ raw.kind = "ok"
              /\ raw.records = Slice0(parseOutput(engine.stdout),
                                      limitOf(request.limit) * RawFactor)
              /\ response.kind = "ok"
        /\ engine.code = "1" =>
              /\ raw.kind = "ok"
              /\ raw.records = <<>>
              /\ response.kind = "ok"
              /\ response.results = <<>>
        /\ engine.code = "2" =>
              /\ raw.kind = "error"
              /\ raw.message = <<"Invalid search pattern: ">> \o engine.message
              /\ response.kind = "error"
              /\ response.message = raw.message
        /\ engine.code \notin {"0", "1", "2"} =>
              /\ raw.kind = "error"
              /\ raw.message = <<"Search failed: ">> \o engine.message
              /\ response.kind = "error"
              /\ response.message = raw.message

\* the engine failed after printing matches, and the search failed
C5_Witness ==
    /\ Searched
    /\ engine.code \notin {"0", "1", "2", "-"}
    /\ engine.stdout # <<>>
    /\ response.kind = "error"

\* C6: for a limit of at least 1, searchHackTricksGrouped returns at most
\* limit grouped results, even when more than limit files match (the limit is
\* held in halves).
C6_AtMostLimit ==
    (Searched /\ limitOf(request.limit) >= 2) =>
        2 * Len(response.results) <= limitOf(request.limit)

\* a limit of 1 has cut several groups to one
C6_Witness ==
    /\ Searched
    /\ request.limit = Given(2)
    /\ Len(groups) > 1
    /\ Len(response.results) = 1

\* C7: whatever the limit argument is (absent, zero, negative, fractional or
\* above 50), the search returns at most 50 grouped results, and at most 20
\* when the argument is absent.
C7_AtMostFifty ==
    Searched =>
        /\ Len(response.results) <= MaxLimit
        /\ request.limit = Absent => Len(response.results) <= DefaultLimit

\* the headers at or before a line
headersBefore(headers, line) == SelectSeq(headers, LAMBDA h : h.line <= line)

\* the texts of the nearest headers of the matches that have one, distinct
\* and in first-seen order, cut to five
nearestTexts(headers, matches) ==
    LET reached == SelectSeq(matches, LAMBDA m : Len(headersBefore(headers, m.line)) > 0)
    IN  Take(FirstSeen([k \in 1..Len(reached) |->
                 headersBefore(headers, reached[k].line)
                     [Len(headersBefore(headers, reached[k].line))].text]), MaxSections)

\* C8: in every grouped result relevantSections has at most 5 entries and no
\* duplicates, and it is the first (up to 5) distinct texts, in first-seen
\* order over the file's matches, of the nearest header at or before each
\* match's line.
C8_SectionsAreNearestHeaders ==
    \A k \in 1..Len(groups) :
        /\ Len(groups[k].relevantSections) <= MaxSections
        /\ \A i, j \in 1..Len(groups[k].relevantSections) :
              i # j => groups[k].relevantSections[i] # groups[k].relevantSections[j]
        /\ readFile(fs, join(<<HACKTRICKS_PATH, groups[k].file>>)).code = "OK" =>
              groups[k].relevantSections =
                  nearestTexts(
                      extractHeaders(readFile(fs, join(<<HACKTRICKS_PATH, groups[k].file>>)).content),
                      matchesIn(raw.records, groups[k].file))

\* the preview the claim C9 describes for raw content
previewOf(content) ==
    IF Len(content) <= MaxContent THEN content
    ELSE SubSeq(content, 1, MaxContent) \o <<".", ".", ".">>

\* C9: in every grouped result, readable file or not, matchCount is at least
\* the length of topMatches, topMatches is the first min(3, matchCount) raw
\* matches of the file in their order, and each content is the raw content
\* when it has at most 150 characters, else its first 150 and an ellipsis.
C9_TopMatches ==
    \A k \in 1..Len(groups) :
        /\ groups[k].matchCount = Len(matchesIn(raw.records, groups[k].file))
        /\ groups[k].matchCount >= Len(groups[k].topMatches)
        /\ Len(groups[k].topMatches) =
              (IF groups[k].matchCount < 3 THEN groups[k].matchCount ELSE 3)
        /\ \A j \in 1..Len(groups[k].topMatches) :
              /\ groups[k].topMatches[j].line =
                     matchesIn(raw.records, groups[k].file)[j].line
              /\ groups[k].topMatches[j].content =
                     previewOf(matchesIn(raw.records, groups[k].file)[j].content)

\* a file with more than three matches whose first match is longer than 150
\* characters
C9_Witness ==
    \E k \in 1..Len(groups) :
        /\ groups[k].matchCount > 3
        /\ Len(groups[k].topMatches) = 3
        /\ Len(groups[k].topMatches[1].content) = MaxContent + 3

\* the name of a file without its directories and without its extension
strippedName(file) ==
    LET name == Split(file, "/")[Len(Split(file, "/"))]
        dots == Positions(name, LAMBDA i : name[i] = ".")
    IN  IF Len(dots) = 0 THEN name ELSE SubSeq(name, 1, dots[Len(dots)] - 1)

\* C10: a failure to read a matched file never fails the search nor removes
\* the file's group: before the cut to the limit there is exactly one group
\* per distinct file of the raw records, and the group of an unreadable file
\* has the filename without its extension as title, no relevantSections, and
\* the matchCount and topMatches it would have had otherwise.
C10_ReadFailureDegrades ==
    (Searched /\ raw.kind = "ok") =>
        /\ response.kind = "ok"
        /\ [k \in 1..Len(groups) |-> groups[k].file]
              = FirstSeen([k \in 1..Len(raw.records) |-> raw.records[k].file])
        /\ \A k \in 1..Len(groups) :
              readFile(fs, join(<<HACKTRICKS_PATH, groups[k].file>>)).code # "OK" =>
                  /\ groups[k].title = strippedName(groups[k].file)
                  /\ groups[k].relevantSections = <<>>
                  /\ groups[k].matchCount = Len(matchesIn(raw.records, groups[k].file))
                  /\ groups[k].topMatches =
                         topMatchesOf(matchesIn(raw.records, groups[k].file))

\* the places of the files of some groups among the given files
discoveryOf(gs, files) ==
    [k \in 1..Len(gs) |-> Head(Positions(files, LAMBDA n : files[n] = gs[k].file))]

\* groups in non-increasing order of matchCount, those of equal matchCount in
\* the order of their places
rankedStably(gs, place) ==
    \A i \in 1..(Len(gs) - 1) :
        \/ gs[i].matchCount > gs[i + 1].matchCount
        \/ /\ gs[i].matchCount = gs[i + 1].matchCount
           /\ place[i] < place[i + 1]

\* C11: the groups searchHackTricksGrouped returns are in non-increasing
\* order of matchCount, and groups of equal matchCount are in the order in
\* which their files were first discovered in the raw records.
C11_RankedStably ==
    Searched =>
        rankedStably(response.results, discoveryOf(response.results, filesOf(raw.records)))

\* a file discovered second is returned first, having more matches
C11_Witness ==
    /\ Searched
    /\ Len(response.results) >= 2
    /\ response.results[1].file = groups[2].file
    /\ response.results[1].matchCount > response.results[2].matchCount

(***************************************************************************)
(* The Quick-Lookup Resolver over the corpus of the quick lookups.         *)
(***************************************************************************)
LookupInit ==
    /\ fs = LookupDisk
    /\ pc = "idle"
    /\ request = NoRequest
    /\ engine = NotInvoked
    /\ execLog = <<>>
    /\ fsLog = <<>>
    /\ raw = NoRaw
    /\ groups = <<>>
    /\ parsed = NoParsed
    /\ lookup = NoLookup
    /\ listing = NoListing
    /\ inflight = <<>>
    /\ response = NoResponse

LookupOfTopic == lookupFor(LookupCases, LookupAnswers)

LookupNext == LookupOfTopic \/ Reply

LookupSpec == LookupInit /\ [][LookupNext]_vars

(***************************************************************************)
(* The section of a document, told from its Headers.                       *)
(***************************************************************************)
\* the Headers whose text contains the name, case-insensitively
namedHeaders(headers, nameLower) ==
    SelectSeq(headers, LAMBDA h : Includes(toLowerCase(h.text), nameLower))

\* the Headers after the start that are not deeper than it
closingHeaders(headers, start) ==
    SelectSeq(headers, LAMBDA h : h.line > start.line /\ h.level <= start.level)

linesBetween(lines, start, closing) ==
    JoinWith(SubSeq(lines, start.line,
                    IF Len(closing) = 0 THEN Len(lines) ELSE closing[1].line - 1),
             <<"\n">>)

sectionOfHeaders(lines, headers, named) ==
    IF Len(named) = 0 THEN None
    ELSE linesBetween(lines, named[1], closingHeaders(headers, named[1]))

sectionByHeaders(content, sectionName) ==
    sectionOfHeaders(Split(content, "\n"), extractHeaders(content),
                     namedHeaders(extractHeaders(content), toLowerCase(sectionName)))

SectionRead ==
    pc = "replied" /\ request.name = "get_hacktricks_section" /\ parsed.doc # None

\* C12: extractSection returns none exactly when no Header of
\* extractHeaders(text) has a text that contains the name, whatever the case
\* of the letters; otherwise it returns the lines from the earliest such
\* Header up to the line before the next Header of the same or a smaller
\* level, or up to the end of the document.
C12_SectionByHeaders ==
    SectionRead => parsed.section = sectionByHeaders(parsed.doc, request.section)

\* C13: section extraction is idempotent: extractSection(text, name) evaluated
\* again yields the output the operation returned, and extractSection with the
\* same name applied to a returned section returns that section unchanged.
C13_SectionIdempotent ==
    SectionRead =>
        /\ extractSection(parsed.doc, request.section) = parsed.section
        /\ parsed.section # None =>
               extractSection(parsed.section, request.section) = parsed.section

\* a section with a header below its own was cut out of a longer document
C13_Witness ==
    /\ SectionRead
    /\ parsed.section # None
    /\ Len(parsed.section) < Len(parsed.doc)
    /\ Len(extractHeaders(parsed.section)) >= 2
    /\ response.kind = "ok"
    /\ response.content = parsed.section

(***************************************************************************)
(* The headers of a document and the header nearest to a line.             *)
(***************************************************************************)
HeadersRead ==
    /\ pc = "replied"
    /\ request.name \in {"findNearestSection", "get_hacktricks_outline"}
    /\ parsed.doc # None

orderedHeaders(headers) ==
    /\ \A k \in 1..Len(headers) : headers[k].level \in 1..6 /\ headers[k].line >= 1
    /\ \A k \in 1..(Len(headers) - 1) : headers[k].line < headers[k + 1].line

\* the text of the header with the greatest line at or before the target line
nearestText(headers, targetLine) ==
    LET before == {k \in 1..Len(headers) : headers[k].line <= targetLine}
    IN  IF before = {} THEN None
        ELSE headers[CHOOSE k \in before :
                         \A j \in before : headers[j].line <= headers[k].line].text

\* C14: extractHeaders returns the headers in increasing line order, each with
\* a level in 1..6 and a line of at least 1, and findNearestSection on them
\* returns the text of the header with the greatest line at or before the
\* target line, or none when no header is at or before it.
C14_HeadersAndNearest ==
    HeadersRead =>
        /\ parsed.headers = extractHeaders(parsed.doc)
        /\ orderedHeaders(parsed.headers)
        /\ request.name = "findNearestSection" =>
               parsed.nearest = nearestText(parsed.headers, parsed.targetLine)

\* headers at lines 1, 10 and 20, and line 15 has the header of line 10
C14_Witness ==
    /\ HeadersRead
    /\ request.name = "findNearestSection"
    /\ [k \in 1..Len(parsed.headers) |-> parsed.headers[k].line] = <<1, 10, 20>>
    /\ parsed.targetLine = 15
    /\ parsed.nearest = <<"a", "b">>

(***************************************************************************)
(* The fenced blocks of a document: the fences taken in pairs, an opening  *)
(* fence and the fence that closes it.                                     *)
(***************************************************************************)
\* the first position at or after p that holds one of the characters, 0 when none does
firstOf(content, p, chars) ==
    LET at == Positions(content, LAMBDA q : q >= p /\ content[q] \in chars)
    IN  IF Len(at) = 0 THEN 0 ELSE at[1]

\* the token that follows the opening fence at p: the characters up to the
\* white space, "text" when there are none
tokenAfter(content, p, stop) ==
    IF stop = p + 3 THEN <<"t", "e", "x", "t">> ELSE SubSeq(content, p + 3, stop - 1)

fencedBlock(content, open, close) ==
    [language |-> tokenAfter(content, open, firstOf(content, open + 3, WhiteSpace)),
     code |-> Trim(SubSeq(content, firstOf(content, open + 3, {"\n"}) + 1, close - 1))]

pairedBlocks(content, fences) ==
    [k \in 1..(Len(fences) \div 2) |-> fencedBlock(content, fences[2 * k - 1], fences[2 * k])]

fencedBlocks(content) ==
    pairedBlocks(content, Positions(content, LAMBDA p : IsFence(content, p)))

CheatsheetRead ==
    pc = "replied" /\ request.name = "get_hacktricks_cheatsheet" /\ parsed.doc # None

\* C15: extractCodeBlocks returns one block for each terminated fenced block
\* of the text, in source order, its language the token that follows the
\* opening fence ("text" when there is none) and its code the trimmed text
\* between the two fences; a text without fences gives no block, and a fence
\* that is not closed gives none.
C15_BlockPerFencedBlock ==
    CheatsheetRead => parsed.blocks = fencedBlocks(parsed.doc)

(***************************************************************************)
(* The read of a page that passed the Path Safety Gate.                    *)
(***************************************************************************)
PageOperations ==
    {"get_hacktricks_page", "get_hacktricks_outline", "get_hacktricks_section",
     "get_hacktricks_cheatsheet"}

\* a page operation whose arguments the handler accepted and whose path the
\* gate let through
PageRead ==
    /\ pc = "replied"
    /\ request.name \in PageOperations
    /\ request.path # None /\ Len(request.path) > 0
    /\ request.name = "get_hacktricks_section" =>
           request.section # None /\ Len(request.section) > 0
    /\ pathGate(request.path) = <<>>

\* what the read of the page's file gives on the disk: OK or the error's code
readOf(d, path) == readFile(d, join(<<HACKTRICKS_PATH, ReplaceAllChar(path, "\\", "/")>>)).code

notFound(path) == <<"File not found: ">> \o path
isDirectory(path) == <<"Path is a directory, not a file: ">> \o path

failsAs(code, path) ==
    response.kind = "error" /\
    response.message = IF code = "ENOENT" THEN notFound(path)
                       ELSE IF code = "EISDIR" THEN isDirectory(path)
                       ELSE <<code>>

\* C20: for a path that passes the Path Safety Gate, getPage (and so outline,
\* section and cheatsheet) fails with "File not found" and the caller's path
\* as given when the file is missing, with "Path is a directory" and the
\* caller's path as given when the location is a directory, and passes every
\* other failure of the read on as it is; the three outcomes differ.
C20_ReadFailures ==
    PageRead =>
        /\ readOf(fs, request.path) # "OK" => failsAs(readOf(fs, request.path), request.path)
        /\ notFound(request.path) # isDirectory(request.path)
        /\ \A code \in {"EACCES", "ENOTDIR"} :
               <<code>> \notin {notFound(request.path), isDirectory(request.path)}

\* a missing file under a path written with a backslash, named as the caller wrote it
C20_Witness ==
    /\ PageRead
    /\ request.name = "get_hacktricks_outline"
    /\ request.path = <<" ", "\\", "a">>
    /\ readOf(fs, request.path) = "ENOENT"
    /\ response.message = <<"File not found: ", " ", "\\", "a">>

(***************************************************************************)
(* The quick lookup: its search terms, its candidates and its choice.      *)
(***************************************************************************)
\* the handler accepted the topic and quickLookup has run
LookedUp ==
    /\ pc = "replied"
    /\ request.name = "hacktricks_quick_lookup"
    /\ request.topic # None /\ Len(request.topic) > 0

TableKeys == {SEARCH_ALIASES[i].key : i \in 1..Len(SEARCH_ALIASES)}

\* the expansion terms of a key of the table
expansionOf(key) == SEARCH_ALIASES[CHOOSE i \in 1..Len(SEARCH_ALIASES) : SEARCH_ALIASES[i].key = key].terms

\* C16: the search-term list of quickLookup is the topic as given followed by
\* the alias table's expansion terms when the lower-cased topic is a key of the
\* table, and the topic alone for every other topic; building the list never
\* fails.
C16_TermsFromAliases ==
    LookedUp =>
        lookup.terms = IF toLowerCase(request.topic) \in TableKeys
                       THEN <<request.topic>> \o expansionOf(toLowerCase(request.topic))
                       ELSE <<request.topic>>

\* the place of the first visit that has the greatest score
firstGreatest(visits) ==
    CHOOSE k \in 1..Len(visits) :
        /\ \A j \in 1..Len(visits) : visits[j].score <= visits[k].score
        /\ \A j \in 1..(k - 1) : visits[j].score < visits[k].score

\* C17: the page selected by quickLookup is the candidate with the greatest
\* score over all the (term, candidate) pairs visited, terms in list order and
\* candidates in each term's ranked order; of several pairs with the greatest
\* score, the one met first is selected.
C17_FirstGreatestScore ==
    (LookedUp /\ Len(lookup.visits) > 0) =>
        lookup.best = lookup.visits[firstGreatest(lookup.visits)].file

\* two pages share the greatest score and the first one met is selected
C17_Witness ==
    /\ LookedUp
    /\ Len(lookup.visits) >= 3
    /\ lookup.visits[1].file = FileWeb
    /\ lookup.visits[2].file = FileNotes
    /\ lookup.visits[1].score = lookup.visits[2].score
    /\ \A j \in 1..Len(lookup.visits) : lookup.visits[j].score <= lookup.visits[1].score
    /\ lookup.best = FileWeb
    /\ response.kind = "ok"

\* quickLookup failed with the no-results error that names the topic
NoResultsFound == response.kind = "error" /\ response.message = noResults(request.topic)

\* the engine failed on the search for the k-th term
searchFailed(k) == lookup.answers[k].code \notin {"0", "1"}

\* C18: quickLookup fails with the no-results error naming the topic if and
\* only if no search term produced a candidate group; the failure of the search
\* for one term is discarded: the remaining terms are still searched, and a
\* candidate of another term is still selected.
C18_NoResultsIffNoCandidate ==
    LookedUp =>
        /\ NoResultsFound <=> Len(lookup.visits) = 0
        /\ (request.category = None /\ Len(Trim(request.topic)) > 0) =>
               /\ Len(execLog) = Len(lookup.terms)
               /\ \A k \in 1..Len(execLog) :
                      \E i \in 1..Len(execLog[k]) : execLog[k][i] = lookup.terms[k]
        /\ (\E k \in 1..Len(lookup.terms) : searchFailed(k)) =>
               (lookup.best = None <=> Len(lookup.visits) = 0)

(***************************************************************************)
(* Empty and blank required arguments.                                     *)
(***************************************************************************)
\* an argument that is absent, empty or nothing but white space
BlankArgument(arg) == arg = None \/ Blank(arg)

\* the request has a required string argument that is blank
BlankRequired ==
    \/ request.name = "search_hacktricks" /\ BlankArgument(request.query)
    \/ request.name \in PageOperations /\ BlankArgument(request.path)
    \/ request.name = "get_hacktricks_section" /\ BlankArgument(request.section)
    \/ request.name = "hacktricks_quick_lookup" /\ BlankArgument(request.topic)

EmptyInputMessages ==
    {<<"Query parameter is required">>, <<"Search query cannot be empty">>,
     <<"Path parameter is required">>, <<"File path cannot be empty">>,
     <<"Section parameter is required">>, <<"Topic parameter is required">>}

\* C19: every operation given an empty or blank required string argument
\* (query, path, section name or topic) fails with the empty-input error (for a
\* query: "Search query cannot be empty"), raised before the search engine is
\* invoked or a file is read, and never with a not-found error, a search
\* failure or a success.
C19_BlankArgumentFails ==
    (pc = "replied" /\ BlankRequired) =>
        /\ response.kind = "error"
        /\ response.message \in EmptyInputMessages
        /\ execLog = <<>>
        /\ fsLog = <<>>

(***************************************************************************)
(* The quick lookup over the corpus of the ranking.                        *)
(***************************************************************************)
RankingInit ==
    /\ fs = RankingDisk
    /\ pc = "idle"
    /\ request = NoRequest
    /\ engine = NotInvoked
    /\ execLog = <<>>
    /\ fsLog = <<>>
    /\ raw = NoRaw
    /\ groups = <<>>
    /\ parsed = NoParsed
    /\ lookup = NoLookup
    /\ listing = NoListing
    /\ inflight = <<>>
    /\ response = NoResponse

LookupOfRanking == lookupFor(RankingCases, RankingAnswers)

RankingNext == LookupOfRanking \/ Reply

RankingSpec == RankingInit /\ [][RankingNext]_vars

(***************************************************************************)
(* The Category Tree Builder on its own disks.                             *)
(***************************************************************************)
TreeInit ==
    /\ fs \in TreeDisks
    /\ pc = "idle"
    /\ request = NoRequest
    /\ engine = NotInvoked
    /\ execLog = <<>>
    /\ fsLog = <<>>
    /\ raw = NoRaw
    /\ groups = <<>>
    /\ parsed = NoParsed
    /\ lookup = NoLookup
    /\ listing = NoListing
    /\ inflight = <<>>
    /\ response = NoResponse

ListOfTree == listFor(TreeCategories)

TreeNext == ListOfTree \/ Reply

TreeSpec == TreeInit /\ [][TreeNext]_vars

(***************************************************************************)
(* Requests in flight. A handler runs from one await to the next in one     *)
(* step; between two steps of a request the steps of the others may run.    *)
(* inflight holds one record per request, with the locals of its calls.     *)
(***************************************************************************)
\* a call of listDirectoryTree that awaits: "reading" awaits readdir, "waiting" awaits
\* the call for the entry k, "returning" has returned and its caller has yet to resume
Frame(dirPath, depth, state) ==
    [dirPath |-> dirPath, depth |-> depth, entries |-> <<>>, k |-> 0, tree |-> <<>>,
     state |-> state]

\* a call of listDirectoryTree up to its first await
called(dirPath, depth, maxDepth) ==
    Frame(dirPath, depth, IF depthExceeded(depth, maxDepth) THEN "returning" ELSE "reading")

\* the entry of the log for a call
logged(frame) == TreeCall(frame.dirPath, frame.depth, frame.state = "reading")

\* the loop of a call from its entry k to the next await: the pages up to the next
\* directory are pushed, then the call for that directory awaits, or the sorted tree is
\* returned; gives the frame, with the frame of a new call
loopOn(frame, k, basePath, maxDepth) ==
    LET pathOf(entry) ==
            ReplaceFirst(join(<<frame.dirPath, entry.name>>), basePath \o <<"/">>, <<>>)
        ahead == {j \in k..Len(frame.entries) :
                    /\ ~skipped(frame.entries[j].name)
                    /\ entryIsDirectory(frame.entries[j])}
        stop == IF ahead = {} THEN Len(frame.entries) + 1
                ELSE CHOOSE j \in ahead : \A o \in ahead : j <= o
        pages == SelectSeq(SubSeq(frame.entries, k, stop - 1),
                           LAMBDA entry : /\ ~skipped(entry.name)
                                          /\ EndsWith(entry.name, <<".", "m", "d">>))
        tree == frame.tree
                \o [i \in 1..Len(pages) |-> FileNode(pages[i].name, pathOf(pages[i]))]
    IN  IF stop > Len(frame.entries)
        THEN <<[frame EXCEPT !.k = stop, !.tree = treeOrder(tree), !.state = "returning"]>>
        ELSE <<[frame EXCEPT !.k = stop, !.tree = tree, !.state = "waiting"],
               called(join(<<frame.dirPath, frame.entries[stop].name>>),
                      nextDepth(frame.depth), maxDepth)>>

\* what listCategories gives: [kind, message, tree, categories, calls]
CategoriesResult(kind, message, tree, categories, calls) ==
    [kind |-> kind, message |-> message, tree |-> tree, categories |-> categories,
     calls |-> calls]

NoResult == [kind |-> "none"]

\* a request for a listing arrives: listCategories runs to its first await
listingArrives(category, backwards) ==
    LET first == called(join(<<HACKTRICKS_PATH, Src, category>>), 0, DefaultMaxDepth)
    IN  IF category # None /\ Len(category) > 0
        THEN [kind |-> "list", category |-> category, backwards |-> backwards,
              phase |-> "walking", stack |-> <<first>>, calls |-> <<logged(first)>>,
              result |-> NoResult]
        ELSE [kind |-> "list", category |-> category, backwards |-> backwards,
              phase |-> "categories", stack |-> <<>>, calls |-> <<>>, result |-> NoResult]

\* the stack with its top replaced by the frames an advance of the loop leaves
advanced(p, below, frames) ==
    [p EXCEPT !.stack = below \o frames,
              !.calls = IF Len(frames) = 2 THEN Append(@, logged(frames[2])) ELSE @]

\* one step of a listing on the disk d: the await at the top of its stack is over
listingStep(d, p) ==
    LET n == Len(p.stack)
        top == p.stack[n]
        below == SubSeq(p.stack, 1, n - 1)
        failed(code) ==
            [p EXCEPT !.phase = "done", !.stack = <<>>,
                      !.result = CategoriesResult("error", <<"Failed to list categories: ", code>>,
                                         <<>>, <<>>, p.calls)]
    IN  IF p.phase = "categories"
        THEN [p EXCEPT !.phase = "done",
                       !.result = listCategories(d, p.category, p.backwards)]
        ELSE IF top.state = "reading"
        THEN Only({IF listed.code # "OK" THEN failed(listed.code)
                   ELSE advanced(p, below,
                                 loopOn([top EXCEPT !.entries = listed.entries], 1,
                                        HACKTRICKS_PATH, DefaultMaxDepth))
                   : listed \in {readdir(d, top.dirPath, p.backwards)}})
        ELSE IF n = 1
        THEN [p EXCEPT !.phase = "done", !.stack = <<>>,
                       !.result = CategoriesResult("ok", <<>>, top.tree, <<>>, p.calls)]
        ELSE LET parent == below[n - 1]
                 entry == parent.entries[parent.k]
                 relativePath ==
                    ReplaceFirst(join(<<parent.dirPath, entry.name>>),
                                 HACKTRICKS_PATH \o <<"/">>, <<>>)
             IN  advanced(p, SubSeq(below, 1, n - 2),
                          loopOn([parent EXCEPT
                                    !.tree = pushDirectory(@, entry.name, relativePath,
                                                           top.tree)],
                                 parent.k + 1, HACKTRICKS_PATH, DefaultMaxDepth))

\* the steps of the requests in flight leave the corpus and the rest alone
OnlyInFlight ==
    UNCHANGED <<fs, request, engine, execLog, fsLog, raw, groups, parsed, lookup, listing,
                response>>

\* a request whose await is over and whose handler has not returned
undone(p) == p.phase # "done"

\* the event loop, idle, takes up a continuation that is ready
Dispatch ==
    /\ pc = "idle"
    /\ \E i \in 1..Len(inflight) : undone(inflight[i])
    /\ pc' = "running"
    /\ UNCHANGED inflight
    /\ OnlyInFlight

\* the event loop, running, has run a continuation to its next await
Ran == pc = "running" /\ pc' = "idle"

\* a request for a listing arrives while fewer than most are in flight
ListingArrives(categories, most) ==
    /\ pc = "idle"
    /\ Len(inflight) < most
    /\ \E category \in categories, backwards \in BOOLEAN :
            inflight' = Append(inflight, listingArrives(category, backwards))
    /\ UNCHANGED pc
    /\ OnlyInFlight

\* a listing in flight runs to its next await
ListingStep ==
    /\ pc = "running"
    /\ \E i \in 1..Len(inflight) :
            /\ inflight[i].kind = "list"
            /\ undone(inflight[i])
            /\ inflight' = [inflight EXCEPT ![i] = listingStep(fs, inflight[i])]
    /\ pc' = "idle"
    /\ OnlyInFlight

\* what a quick lookup in flight has done: a search issued or returned, the read of the
\* winning page issued or returned
Event(op, term) == [op |-> op, term |-> term]

\* a bestScore that the lookups in flight would share
scoreToBeat_shared(own, all) ==
    CHOOSE s \in {own} \cup {all[i] : i \in 1..Len(all)} :
        \A o \in {own} \cup {all[i] : i \in 1..Len(all)} : o <= s

\* let bestScore = 0: a variable of the call, which no other call sees
scoreToBeat(own, all) == own

\* a read without a candidate
readIssued_always(best) == TRUE

\* if (!bestResult) throw ...: the page is read when a candidate was found
readIssued(best) == best # 0

\* a request for a quick lookup arrives: quickLookup runs to its first await, the search
\* for the topic itself
lookupArrives(topic, category) ==
    LET terms == searchTerms(topic)
        p == [kind |-> "lookup", topic |-> topic, category |-> category,
              terms |-> terms.terms, k |-> 1, answers |-> <<>>, visits |-> <<>>,
              bestScore |-> 0, best |-> 0, execs |-> <<>>, reads |-> <<>>,
              phase |-> "searching", events |-> <<Event("exec", terms.terms[1])>>,
              result |-> NoResult]
    IN  IF terms.ok THEN p
        ELSE [p EXCEPT !.phase = "done", !.events = <<>>,
                       !.result = quickLookup(<<>>, topic, category, <<>>)]

\* what the lookup has found so far, as quickLookup records it
trailOf(p) ==
    [terms |-> p.terms, answers |-> p.answers, visits |-> p.visits, best |-> None,
     sections |-> <<>>]

\* bestResult, null until a candidate scored above bestScore
bestResult(p) == IF p.best = 0 THEN None ELSE p.visits[p.best].file

\* the loop of the terms goes on after the search for terms[p.k] returned: to the next
\* search, to the read of the page of bestResult, or to the throw
afterSearch(d, p, outcome) ==
    IF p.k < Len(p.terms)
    THEN [p EXCEPT !.k = p.k + 1,
                   !.events = p.events \o <<Event(outcome, p.terms[p.k]),
                                            Event("exec", p.terms[p.k + 1])>>]
    ELSE IF readIssued(p.best)
    THEN [p EXCEPT !.phase = "reading",
                   !.events = p.events \o <<Event(outcome, p.terms[p.k]),
                                            Event("read", bestResult(p))>>]
    ELSE [p EXCEPT !.phase = "done",
                   !.events = Append(p.events, Event(outcome, p.terms[p.k])),
                   !.result = lookupBest(d, p.topic, p.visits, p.best, p.execs, p.reads,
                                         trailOf(p))]

\* the candidates of the search that returned are scored against bestScore
scored(p, visits, best) ==
    [p EXCEPT !.visits = visits, !.best = best,
              !.bestScore = IF best = p.best THEN @ ELSE visits[best].score]

searchReturned(d, p, answer, searched, toBeat) ==
    LET new == IF searched.kind = "ok"
               THEN visitsOfTerm(searched.results, p.terms[p.k], toLowerCase(p.topic))
               ELSE <<>>
        q == [p EXCEPT !.answers = Append(@, answer), !.execs = @ \o searched.execs,
                       !.reads = @ \o searched.reads]
    IN  Only({afterSearch(d, Only({scored(q, visits, best) :
                                     best \in {bestVisit(visits, Len(p.visits) + 1, toBeat,
                                                         p.best)}}),
                          IF searched.kind = "ok" THEN "returned" ELSE "failed")
              : visits \in {p.visits \o new}})

\* a quick lookup in flight runs to its next await, the engine having answered its
\* search; all holds the bestScore of every lookup in flight
lookupStep(d, p, answer, all) ==
    IF p.phase = "searching"
    THEN Only({searchReturned(d, p, answer, searched, scoreToBeat(p.bestScore, all)) :
                 searched \in {searchHackTricksGrouped(d, p.terms[p.k], p.category,
                                                       2 * LookupLimit, answer)}})
    ELSE [p EXCEPT !.phase = "done",
                   !.events = Append(@, Event("page", bestResult(p))),
                   !.result = lookupBest(d, p.topic, p.visits, p.best, p.execs, p.reads,
                                         trailOf(p))]

bestScores(procs) ==
    LET lookups == SelectSeq(procs, LAMBDA p : p.kind = "lookup")
    IN  [i \in 1..Len(lookups) |-> lookups[i].bestScore]

\* a request for a quick lookup arrives while fewer than most are in flight
LookupArrives(cases, most) ==
    /\ pc = "idle"
    /\ Len(inflight) < most
    /\ \E case \in cases :
            inflight' = Append(inflight, lookupArrives(case.topic, case.category))
    /\ UNCHANGED pc
    /\ OnlyInFlight

\* a quick lookup in flight runs to its next await
LookupStep(answersGiven) ==
    /\ pc = "running"
    /\ \E i \in 1..Len(inflight) :
            /\ inflight[i].kind = "lookup"
            /\ undone(inflight[i])
            /\ \E answer \in IF inflight[i].phase = "searching" THEN answersGiven
                             ELSE {NotInvoked} :
                    inflight' = [inflight EXCEPT
                                    ![i] = lookupStep(fs, inflight[i], answer,
                                                      bestScores(inflight))]
    /\ pc' = "idle"
    /\ OnlyInFlight

(***************************************************************************)
(* One listing in flight, over the disks of the Category Tree Builder.      *)
(***************************************************************************)
WalkArrives == ListingArrives(TreeCategories, 1)

WalkNext == WalkArrives \/ Dispatch \/ ListingStep

WalkSpec == TreeInit /\ [][WalkNext]_vars

\* the same under an event loop that takes up a ready continuation and runs it
WalkFairSpec == WalkSpec /\ WF_vars(Dispatch) /\ WF_pc(Ran)

(***************************************************************************)
(* Properties of the Category Tree Builder.                                *)
(***************************************************************************)
\* a category was listed and its tree answered
Listed ==
    /\ pc = "replied"
    /\ request.name = "list_hacktricks_categories"
    /\ request.category # None
    /\ Len(request.category) > 0
    /\ response.kind = "ok"

\* the number of levels of a tree: its own nodes are level 1
RECURSIVE levelsOf(_)
levelsOf(tree) ==
    IF Len(tree) = 0 THEN 0
    ELSE LET below == {levelsOf(tree[i].children) : i \in 1..Len(tree)}
         IN  1 + CHOOSE n \in below : \A o \in below : o <= n

\* the nodes of a tree, at every level
RECURSIVE nodesOf(_)
nodesOf(tree) == UNION {{tree[i]} \cup nodesOf(tree[i].children) : i \in 1..Len(tree)}

\* the location a directory was listed under
listedRoot == join(<<HACKTRICKS_PATH, Src, request.category>>)

\* C21 as stated: with the default maximum depth of 3, no node of the result is nested more
\* than 3 levels deep, the entries of the listed directory being level 1
C21_ThreeLevels == Listed => levelsOf(listing.tree) <= DefaultMaxDepth

\* C21, amended: with the default maximum depth of 3 the directories at depths 0, 1, 2
\* and 3 are read, so no node of the result is nested more than 4 levels deep, the
\* entries of the listed directory being level 1
C21_FourLevels == Listed => levelsOf(listing.tree) <= DefaultMaxDepth + 1

\* a listing of src/c that is 4 levels deep, over a disk that goes deeper
C21_Witness ==
    /\ Listed
    /\ request.category = CategoryC
    /\ levelsOf(listing.tree) = DefaultMaxDepth + 1
    /\ AtC(Chain(DefaultMaxDepth + 2)) \in DOMAIN fs

\* C22 as stated: a directory whose children collapse to empty is dropped, so no
\* directory node of the result has zero children
C22_NoChildlessDirectory ==
    Listed => \A node \in nodesOf(listing.tree) :
                node.type = "directory" => Len(node.children) > 0

\* C22, amended: a directory whose children collapse to empty is kept as a node without
\* children: every directory the builder was called for below the listed one is a
\* directory node of the result
C22_EmptyDirectoryKept ==
    Listed => \A k \in 1..Len(listing.calls) :
                listing.calls[k].depth > 0
                => \E node \in nodesOf(listing.tree) :
                        /\ node.type = "directory"
                        /\ At(node.path) = listing.calls[k].dirPath

\* a listing with a directory node for an empty directory and one for a directory that
\* holds nothing but a text file
C22_Witness ==
    /\ Listed
    /\ request.category = CategoryC
    /\ \E node \in nodesOf(listing.tree) :
            /\ node.path = Src \o <<"/">> \o CategoryC \o <<"/", "e">>
            /\ Len(node.children) = 0
    /\ \E node \in nodesOf(listing.tree) :
            /\ node.path = Src \o <<"/">> \o CategoryC \o <<"/", "a", "b", "/", "y">>
            /\ Len(node.children) = 0
            /\ AtC(<<"/", "a", "b", "/", "y", "/", "a", ".", "t", "x", "t">>) \in DOMAIN fs

\* the siblings the result holds for a directory that was read
siblingsAt(dirPath) ==
    IF dirPath = listedRoot THEN listing.tree
    ELSE LET nodes == {node \in nodesOf(listing.tree) : At(node.path) = dirPath}
         IN  IF nodes = {} THEN <<"<no node>">> ELSE (CHOOSE node \in nodes : TRUE).children

\* the names a directory of the disk holds
namesIn(dirPath) ==
    {SubSeq(loc, Len(dirPath) + 2, Len(loc)) :
        loc \in {l \in DOMAIN fs : /\ StartsWith(l, dirPath \o <<"/">>)
                                   /\ \A i \in (Len(dirPath) + 2)..Len(l) : l[i] # "/"}}

\* the names to be listed: the subdirectories and the markdown files (the entries that
\* are no directories and are named *.md), neither hidden nor the images directory
listedNames(dirPath) ==
    {name \in namesIn(dirPath) :
        /\ name[1] # "."
        /\ name # <<"i", "m", "a", "g", "e", "s">>
        /\ \/ fs[dirPath \o <<"/">> \o name].type = "dir"
           \/ Len(name) >= 3 /\ SubSeq(name, Len(name) - 2, Len(name)) = <<".", "m", "d">>}

\* a before b in the alphabet, whatever the case of the letters
alphabetical(a, b) == compareUnder(toLowerCase(a), toLowerCase(b), CodeUnits) <= 0

\* the segments of a location
segmentsOf(loc) == {s \in {Split(loc, "/")[i] : i \in 1..Len(Split(loc, "/"))} : Len(s) > 0}

\* C23: every sibling list of the result holds exactly the subdirectories and the
\* markdown files of its directory whose names neither begin with "." nor equal "images",
\* the directories before the files and each group in alphabetical order; hidden and
\* images directories are not descended into
C23_SiblingsFilteredAndSorted ==
    Listed =>
        \A k \in 1..Len(listing.calls) :
            LET call == listing.calls[k]
                siblings == siblingsAt(call.dirPath)
            IN  /\ \A s \in segmentsOf(SubSeq(call.dirPath, Len(listedRoot) + 1,
                                              Len(call.dirPath))) :
                        s[1] # "." /\ s # <<"i", "m", "a", "g", "e", "s">>
                /\ call.read =>
                    /\ {siblings[i].name : i \in 1..Len(siblings)} = listedNames(call.dirPath)
                    /\ Len(siblings) = Cardinality(listedNames(call.dirPath))
                    /\ \A i \in 1..Len(siblings) :
                            /\ siblings[i].path = SubSeq(call.dirPath, Len(HACKTRICKS_PATH) + 2,
                                                         Len(call.dirPath))
                                                  \o <<"/">> \o siblings[i].name
                            /\ siblings[i].type = "directory"
                               <=> fs[call.dirPath \o <<"/">> \o siblings[i].name].type = "dir"
                    /\ \A i, j \in 1..Len(siblings) :
                            i < j =>
                                /\ ~(siblings[i].type = "file" /\ siblings[j].type = "directory")
                                /\ siblings[i].type = siblings[j].type
                                   => alphabetical(siblings[i].name, siblings[j].name)

\* a listing of src/c with hidden entries, an images directory and a text file beside
\* three directories and three pages, one of them with a capital
C23_Witness ==
    /\ Listed
    /\ request.category = CategoryC
    /\ {AtC(<<"/", ".", "g", "i", "t">>), AtC(<<"/", "i", "m", "a", "g", "e", "s">>),
        AtC(<<"/", "x", ".", "t", "x", "t">>)} \subseteq DOMAIN fs
    /\ [i \in 1..Len(listing.tree) |-> listing.tree[i].name]
       = << <<"a", "b">>, <<"d">>, <<"e">>, <<"a", ".", "m", "d">>, <<"B", ".", "m", "d">>,
            <<"c", ".", "m", "d">> >>

(***************************************************************************)
(* Properties of the quick lookup's ranking and extraction.                *)
(***************************************************************************)
\* a quick lookup found its page and read it
LookupRead ==
    /\ pc = "replied"
    /\ request.name = "hacktricks_quick_lookup"
    /\ response.kind = "ok"

\* the headers of the winning page, and those whose text holds a priority term
winningHeaders == extractHeaders(readFile(fs, At(lookup.best)).content)
winningLines == Split(readFile(fs, At(lookup.best)).content, "\n")
priorityHeaders ==
    SelectSeq(winningHeaders,
              LAMBDA h : \E j \in 1..Len(PRIORITY_SECTIONS) :
                            Includes(toLowerCase(h.text), PRIORITY_SECTIONS[j]))

\* the section that begins at a header's own line: up to the next header of its level
\* or above, or to the end of the page
ownSection(h) ==
    LET closing == {c \in 1..Len(winningHeaders) :
                        /\ winningHeaders[c].line > h.line
                        /\ winningHeaders[c].level <= h.level}
        last == IF closing = {} THEN Len(winningLines)
                ELSE winningHeaders[CHOOSE c \in closing : \A o \in closing : c <= o].line - 1
    IN  JoinWith(SubSeq(winningLines, h.line, last), <<"\n">>)

ownSections ==
    SelectSeq([k \in 1..Len(priorityHeaders) |-> ownSection(priorityHeaders[k])],
              LAMBDA s : Len(s) > MinSectionLength)

\* C25: in a quick lookup, the section extracted for a header of the winning page whose
\* text holds a priority term begins at that header's own line, so that no section is
\* extracted twice and the sections come in the order of the document
C25_SectionAtOwnHeader ==
    LookupRead /\ Len(ownSections) > 0
    => /\ lookup.sections = ownSections
       /\ \A i, j \in 1..Len(lookup.sections) :
            i < j => lookup.sections[i] # lookup.sections[j]

\* the bonuses a visited candidate earns
earnsTitle(v) ==
    \/ Includes(toLowerCase(v.result.title), toLowerCase(v.term))
    \/ Includes(toLowerCase(v.result.title), toLowerCase(request.topic))
earnsIndex(v) ==
    /\ EndsWith(toLowerCase(v.file), <<"r", "e", "a", "d", "m", "e", ".", "m", "d">>)
    /\ Includes(toLowerCase(v.file), toLowerCase(request.topic))
earnsPath(v) ==
    \/ Includes(toLowerCase(v.file), <<"/">> \o toLowerCase(request.topic))
    \/ Includes(toLowerCase(v.file), toLowerCase(request.topic) \o <<"-">>)
earnsSection(v) ==
    \E i \in 1..Len(v.result.relevantSections) : \E j \in 1..Len(PRIORITY_SECTIONS) :
        Includes(toLowerCase(v.result.relevantSections[i]), PRIORITY_SECTIONS[j])
earned(v) ==
    (IF earnsTitle(v) THEN {"title"} ELSE {}) \cup (IF earnsIndex(v) THEN {"index"} ELSE {})
    \cup (IF earnsPath(v) THEN {"path"} ELSE {})
    \cup (IF earnsSection(v) THEN {"section"} ELSE {})

\* among the candidates of one lookup with equal match counts, one that earns only the
\* bonus order[i] outscores one that earns only the bonus order[j], for i < j
outscoreInOrder(order) ==
    pc = "replied" /\ request.name = "hacktricks_quick_lookup"
    => \A a, b \in 1..Len(lookup.visits) :
        \A i, j \in 1..Len(order) :
            /\ i < j
            /\ lookup.visits[a].result.matchCount = lookup.visits[b].result.matchCount
            /\ earned(lookup.visits[a]) = {order[i]}
            /\ earned(lookup.visits[b]) = {order[j]}
            => lookup.visits[a].score > lookup.visits[b].score

\* C27 as stated: with equal match counts, the title bonus alone outscores the index-page
\* bonus alone, which outscores the path-segment bonus alone, which outscores the
\* section-vocabulary bonus alone
C27_TitleAboveIndex == outscoreInOrder(<<"title", "index", "path", "section">>)

\* C27, amended: with equal match counts, the index-page bonus alone (200) outscores the
\* title bonus alone (100), which outscores the path-segment bonus alone (50), which
\* outscores the section-vocabulary bonus alone (10)
C27_IndexAboveTitle == outscoreInOrder(<<"index", "title", "path", "section">>)

\* a lookup that visited a title-only candidate first and an index-only candidate with
\* as many matches second, and chose the second
C27_Witness ==
    /\ LookupRead
    /\ Len(lookup.visits) = 2
    /\ lookup.visits[1].result.matchCount = lookup.visits[2].result.matchCount
    /\ earned(lookup.visits[1]) = {"title"}
    /\ earned(lookup.visits[2]) = {"index"}
    /\ lookup.best = lookup.visits[2].file

\* C29: every candidate's matchCount lies between 1 and 30, the 3 x 10 raw records of a
\* search, so that a candidate with the title, index-page or path-segment bonus
\* outscores every candidate with none of the three
C29_MatchCountBounded ==
    pc = "replied" /\ request.name = "hacktricks_quick_lookup"
    => /\ \A a \in 1..Len(lookup.visits) :
            lookup.visits[a].result.matchCount \in 1..(RawFactor * LookupLimit)
       /\ \A a, b \in 1..Len(lookup.visits) :
            /\ earned(lookup.visits[a]) \cap {"title", "index", "path"} # {}
            /\ earned(lookup.visits[b]) \cap {"title", "index", "path"} = {}
            => lookup.visits[a].score > lookup.visits[b].score

\* a lookup whose engine printed more than 30 lines: one match of a candidate with the
\* path bonus, then the matches of a candidate with the section bonus alone, cut to 29
C29_Witness ==
    /\ LookupRead
    /\ Len(lookup.visits) = 2
    /\ Len(Split(lookup.answers[1].stdout, "\n")) > RawFactor * LookupLimit + 1
    /\ \E a, b \in 1..2 :
        /\ earned(lookup.visits[a]) = {"path"}
        /\ lookup.visits[a].result.matchCount = 1
        /\ earned(lookup.visits[b]) = {"section"}
        /\ lookup.visits[b].result.matchCount = RawFactor * LookupLimit - 1

\* C30: every file path reported in a result of the search is accepted by the Path
\* Safety Gate: handed unchanged to get page (outline, section, cheatsheet), it does not
\* fail with an invalid-path error
C30_ReportedPathsPassGate ==
    Searched /\ response.kind = "ok"
    => \A i \in 1..Len(response.results) :
            /\ pathGate(response.results[i].file) = <<>>
            /\ getPage(fs, response.results[i].file).message
               \notin {<<"Invalid file path: directory traversal not allowed">>,
                       <<"Invalid file path: must be within HackTricks directory">>}

(***************************************************************************)
(* Properties of a listing in flight.                                      *)
(***************************************************************************)
\* how many directories a location lies below the directory a listing began at
nestingIn(p, dirPath) ==
    Cardinality({i \in (Len(join(<<HACKTRICKS_PATH, Src, p.category>>)) + 1)..Len(dirPath) :
                    dirPath[i] = "/"})

\* the calls of a listing in flight: each one level below its caller and none beyond
\* maxDepth + 1; a directory is read only at a depth up to maxDepth, and a call beyond
\* it has returned empty at once
walkBounded ==
    \A i \in 1..Len(inflight) :
        inflight[i].kind = "list" =>
            /\ Len(inflight[i].stack) <= DefaultMaxDepth + 2
            /\ \A k \in 1..Len(inflight[i].stack) :
                LET frame == inflight[i].stack[k]
                IN  /\ frame.depth = k - 1
                    /\ frame.depth = nestingIn(inflight[i], frame.dirPath)
                    /\ frame.state \in {"reading", "waiting"} => frame.depth <= DefaultMaxDepth
                    /\ frame.depth > DefaultMaxDepth
                       => frame.state = "returning" /\ frame.tree = <<>> /\ frame.entries = <<>>
            /\ \A k \in 1..Len(inflight[i].calls) :
                LET call == inflight[i].calls[k]
                IN  /\ call.depth = nestingIn(inflight[i], call.dirPath)
                    /\ call.read <=> call.depth <= DefaultMaxDepth

walkDone == Len(inflight) = 1 /\ inflight[1].phase = "done"

AsyncInit ==
    /\ fs = LookupDisk
    /\ pc = "idle"
    /\ request = NoRequest
    /\ engine = NotInvoked
    /\ execLog = <<>>
    /\ fsLog = <<>>
    /\ raw = NoRaw
    /\ groups = <<>>
    /\ parsed = NoParsed
    /\ lookup = NoLookup
    /\ listing = NoListing
    /\ inflight = <<>>
    /\ response = NoResponse

Xss == <<"x", "s", "s">>
AsyncLookups == [topic : {Xss, <<"n", "o", "t", "e", "s">>}, category : {None}]
AsyncAnswers ==
    {Answer("1", <<>>, <<"Command failed">>),
     Answer("2", <<>>, Diagnostic),
     Answer("0", Stdout(<<Match(FileReadme, 2, LinesReadme[2])>>), <<>>)}

AsyncListing == ListingArrives({None, Xss}, MaxInFlight)
AsyncLookup == LookupArrives(AsyncLookups, MaxInFlight)
AsyncLookupStep == LookupStep(AsyncAnswers)

AsyncNext == AsyncListing \/ AsyncLookup \/ Dispatch \/ ListingStep \/ AsyncLookupStep

AsyncSpec == AsyncInit /\ [][AsyncNext]_vars

(***************************************************************************)
(* Properties of the requests in flight.                                   *)
(***************************************************************************)
\* the result of the request of p, run alone against the corpus
asRunAlone(p) ==
    IF p.kind = "lookup" THEN quickLookup(fs, p.topic, p.category, p.answers)
    ELSE listCategories(fs, p.category, p.backwards)

\* C24: no operation mutates the corpus or state shared between requests: however the
\* steps of the requests in flight are interleaved, a step changes the state of one
\* request alone and leaves the corpus as it is, and the result of every request is the
\* result of the same request run alone against the same corpus
C24_ResultsAsAlone ==
    /\ [](\A i \in 1..Len(inflight) :
            inflight[i].phase = "done" => inflight[i].result = asRunAlone(inflight[i]))
    /\ [][/\ fs' = fs
          /\ Cardinality({i \in 1..Len(inflight) : inflight'[i] # inflight[i]}) <= 1]_vars

\* two quick lookups in flight: the second arrived after the first and is answered with
\* its page while the first, whose bestScore is higher, still awaits its last search
C24_Witness ==
    /\ Len(inflight) = 2
    /\ inflight[1].kind = "lookup" /\ inflight[2].kind = "lookup"
    /\ inflight[1].phase = "searching" /\ inflight[1].k = 3
    /\ inflight[2].phase = "done" /\ inflight[2].result.kind = "ok"
    /\ inflight[2].bestScore > 0
    /\ inflight[1].bestScore > inflight[2].bestScore

\* the events of a quick lookup in flight, as the sequence of the awaits allows them
inTermOrder(p) ==
    LET n == Len(p.terms)
        e == p.events
    IN  /\ Len(e) <= 2 * n + 2
        /\ \A i \in 1..Len(e) :
            /\ i <= 2 * n /\ i % 2 = 1 => e[i] = Event("exec", p.terms[(i + 1) \div 2])
            /\ i <= 2 * n /\ i % 2 = 0 => /\ e[i].op \in {"returned", "failed"}
                                          /\ e[i].term = p.terms[i \div 2]
            /\ i = 2 * n + 1 => /\ e[i].op = "read"
                                /\ Len(p.visits) > 0
                                /\ e[i].term \in {p.visits[v].file : v \in 1..Len(p.visits)}
            /\ i = 2 * n + 2 => e[i] = Event("page", e[i - 1].term)

\* C26: within one quickLookup the searches are issued one at a time in the order of
\* the term list, the raw topic first, each returning (with results or with a failure) before the next is
\* issued; the winning page is read only after the search for the last term returned,
\* and not at all when no candidate was found
C26_SearchesInTermOrder ==
    \A i \in 1..Len(inflight) :
        LET p == inflight[i]
        IN  p.kind = "lookup" /\ Len(p.events) > 0 =>
                /\ p.terms[1] = p.topic
                /\ p.terms = <<p.topic>> \o aliasesOf(toLowerCase(p.topic)).terms
                /\ inTermOrder(p)
                /\ p.phase = "done" /\ Len(p.visits) = 0 =>
                        /\ Len(p.events) = 2 * Len(p.terms)
                        /\ p.result.kind = "error"
                        /\ p.result.message = noResults(p.topic)

\* a lookup of "xss" beside another request: its three searches in order, the second
\* failed, then the read of the page; and a lookup of which every search failed
C26_Witness ==
    /\ Len(inflight) = 2
    /\ inflight[1].kind = "lookup" /\ inflight[1].topic = Xss
    /\ inflight[1].phase = "done" /\ inflight[1].result.kind = "ok"
    /\ [i \in 1..Len(inflight[1].events) |-> inflight[1].events[i].op]
       = <<"exec", "returned", "exec", "failed", "exec", "returned", "read", "page">>
    /\ inflight[2].kind = "lookup" /\ inflight[2].phase = "done"
    /\ Len(inflight[2].visits) = 0

=============================================================================
